---- MODULE Spec2Model ----
(***************************************************************************)
(* The secret rotator of k8s-gsm-tools: one rotation spec, the Secret      *)
(* Manager secret it names, the service-account-key provisioner with the   *)
(* upstream keys it mints and deletes, and the cron record of the spec.    *)
(* A rotation pass (RunOnce) is split at every client and provisioner      *)
(* call, so that the states between two calls are states of the model.     *)
(* Times and durations are integers; a version string is its number, and   *)
(* a label key is a tuple: <<"project">>, <<"service-account">>, or        *)
(* <<"v", N>> for the key "v" + strconv.Itoa(N).                            *)
(***************************************************************************)
EXTENDS Integers, Sequences, FiniteSets, TLC

VARIABLES
    spec,             \* config.RotatedSecretSpec: Refresh.Interval, Refresh.Cron, GracePeriod
    enableDeletion,   \* svckey.Provisioner.enableDeletion
    secretExists,     \* the Secret Manager secret project-1/secret-1 exists
    versions,         \* its versions 1..Len: [createTime, data, state]
    labels,           \* its label map
    iamKeys,          \* ids of the service-account keys that live upstream
    nextKey,          \* the id the next Keys.Create returns
    secrets,          \* Cron.secrets: name -> [cronStr, triggered]
    clock,            \* time.Now()
    pc,               \* where the rotation pass stands
    now,              \* parameter `now` of the running Refresh / Deactivate
    lbls,             \* local `labels` of the running Refresh / Deactivate
    todo,             \* matching keys of the local map the range loop has not visited
    version,          \* local `version` of Deactivate's loop body
    newId,            \* local `newId` of Refresh
    newSecret,        \* local `newSecret` of Refresh
    latestVersion,    \* local `latestVersion` of Refresh
    shouldRefresh,    \* what the last ShouldRefresh returned
    refreshed,        \* what the last Refresh returned
    shouldDeactivate, \* what the last ShouldDeactivate returned, and for which version
    pre,              \* the store as it was when the running Refresh was called
    dcall,            \* the running Deactivate: did a call fail; at its start, was every
                      \* live version labelled, the labels, the versions and the
                      \* failures injected so far; the error it returned; the versions
                      \* the provisioner failed to deactivate
    revoked,          \* versions for which the provisioner's Deactivate returned nil
    removed,          \* version -> label value, for the labels DeleteSecretLabel removed
    faults,           \* failures injected so far
    upserted,         \* the error the last UpsertLabels returned
    \* the secret sync controller
    SecretManagerSecret, \* tests.MockClient.SecretManagerSecret: secret -> latest bytes
    K8sSecret,        \* tests.MockClient.K8sSecret: namespace -> secret -> key -> bytes
    si,               \* SyncAll's place in Specs: 0 when it is not running
    synced,           \* the running SyncAll's calls of Sync, in order: spec and error
    last,             \* the last Sync, while nothing else has changed the stores
                      \* since: its spec, what it read and returned, the cluster
                      \* before it
    without,          \* the cluster as the running SyncAll would have made it with
                      \* the specs whose Sync failed taken out of the config
    unsynced,         \* the specs whose latest Sync returned an error
    \* RunOnce over a config of several rotation specs
    gsm,              \* tests.MockClient.Secrets: secret -> its versions, its labels,
                      \* and the upstream keys of its service account
    gsm0,             \* gsm when the running RunOnce started
    pidx,             \* RunOnce's place in Specs: 0 when it is not running
    pstep,            \* the step RunOnce takes next for Specs[pidx]
    plog,             \* the running RunOnce's steps for each spec, in order: the
                      \* step, its `now`, whether it returned or logged an error
    \* the config agent and its cron scheduler
    config,           \* Agent.config: the Specs of the published configuration
    apc,              \* where the agent's updateFunc stands
    reload,           \* the last run of updateFunc: by WatchConfig itself or by its
                      \* watcher, the step that failed, and whether the SyncConfig
                      \* of the published config has returned nil
    ranging,          \* the Specs a running RunOnce or SyncAll ranges over
    ri,               \* its place in them: 0 when no pass is running
    visited,          \* the specs its loop body has run for, in order
    validating,       \* the Specs of the config Validate is called on
    validated,        \* what Validate returned: "none" before the call
    \* SecretSyncController.Start
    startpc,          \* where Start's loop stands: "select", "pass", "returned"
    runOnce,          \* SecretSyncController.RunOnce
    stop,             \* stopChan: whether a send waits on it or was received,
                      \* and SyncAll's place in Specs when the send arrived
    ticker,           \* the ticker goroutine: at its send on runChan, or asleep
    passes,           \* the SyncAll calls that have returned, up to MaxPasses
    nextEntry,        \* the EntryID the next cronAgent.AddFunc returns
    cronlog,          \* the last call on the Cron: what it returned, and the
                      \* entries it found, replaced or returned
    fired,            \* the names whose entry has fired since the last
                      \* QueuedSecrets: name -> have the configs of the SyncConfigs
                      \* since had a cron string for it, and the same one
    started,          \* the callbacks the cronAgent has started that wait for
                      \* Cron.lock: the name they close over, the entry they belong to
    cb                \* the last callback that ran under the lock: its name and
                      \* entry, the entry whose record it wrote, whether it found none

vars == <<spec, enableDeletion, secretExists, versions, labels, iamKeys, nextKey,
          secrets, clock, pc, now, lbls, todo, version, newId, newSecret,
          latestVersion, shouldRefresh, refreshed, shouldDeactivate, pre, dcall,
          revoked, removed, faults, upserted,
          SecretManagerSecret, K8sSecret, si, synced, last, without, unsynced,
          gsm, gsm0, pidx, pstep, plog,
          config, apc, reload, ranging, ri, visited, validating, validated,
          startpc, runOnce, stop, ticker, passes,
          nextEntry, cronlog, fired, started, cb>>

store  == <<secretExists, versions, labels>>
conf   == <<spec, enableDeletion>>
locals == <<now, lbls, todo, version, newId, newSecret, latestVersion>>
ghosts == <<shouldRefresh, refreshed, shouldDeactivate, pre, dcall, revoked, removed>>

syncVars == <<SecretManagerSecret, K8sSecret, si, synced, last, without, unsynced>>

passVars == <<gsm, gsm0, pidx, pstep, plog>>

validateVars == <<validating, validated>>

startVars == <<startpc, runOnce, stop, ticker, passes>>

callbackVars == <<started, cb>>

agentVars ==
    <<config, apc, reload, ranging, ri, visited, validateVars, startVars,
      nextEntry, cronlog, fired, callbackVars>>

\* the rotator at work on its one spec
singleVars == <<store, iamKeys, nextKey, secrets, pc, locals, ghosts, upserted>>

\* what the rotator at work on one spec does not touch
others == <<syncVars, passVars, agentVars>>

\* what the sync controller does not touch
rotatorVars == <<conf, clock, singleVars, passVars, agentVars>>

----------------------------------------------------------------------------
(* Bounds of the model *)

MaxTime == 5
MaxInterval == 2
MaxGrace == 1
MaxFaults == 1

----------------------------------------------------------------------------
(* Values *)

Nil == "nil"
NotFound == "NotFound"
Unavailable == "Unavailable"
ProvisionerError == "error"

ENABLED_ == "ENABLED"
DESTROYED == "DESTROYED"

EmptyLabels == [k \in {} |-> 0]

\* RotatedSecretSpec.String()
SpecName == "SecretManager:/projects/project-1/secrets/secret-1"

\* ServiceAccountKeySpec.Labels()
TypeLabels ==
    (<<"project">> :> "project-1") @@ (<<"service-account">> :> "service-foo")

\* "v" + version
VKey(n) == <<"v", n>>

\* regexp.Match(`^v[0-9]+$`, key)
Matched(key) == Len(key) = 2 /\ key[1] = "v"

\* strconv.Atoi(key[1:])
Atoi(key) == key[2]

\* an update that sends the new pair alone, dropping the labels read before
UpsertOverwrite(m, key, val) == (key :> val)

\* labels[key] = val on a map
Upsert(m, key, val) ==
    [k \in DOMAIN m \cup {key} |-> IF k = key THEN val ELSE m[k]]

\* an update that writes the labels back as they were read
DeleteKeepsKey(m, key) == m

\* delete(labels, key)
Delete(m, key) == [k \in DOMAIN m \ {key} |-> m[k]]

\* for key, val := range Type.Labels() { labels[key] = val }
Overlay(m, over) ==
    [k \in DOMAIN m \cup DOMAIN over |-> IF k \in DOMAIN over THEN over[k] ELSE m[k]]

\* the decoded private key material of the key Keys.Create returned
PrivateKeyData(id) == <<"private-key", id>>

VLabels(m) == {Atoi(k) : k \in {x \in DOMAIN m : Matched(x)}}

----------------------------------------------------------------------------
(* The Secret Manager client *)

ValidateSecret == IF secretExists THEN Nil ELSE NotFound

\* "latest" is the highest version
Latest == Len(versions)

\* a ValidateSecretVersion that refuses a version in state DESTROYED
ValidateSecretVersionRefusesDestroyed(v) ==
    IF ValidateSecret # Nil THEN ValidateSecret
    ELSE IF v \notin 1..Len(versions) THEN NotFound
    ELSE IF versions[v].state = "DESTROYED" THEN "FailedPrecondition"
    ELSE Nil

ValidateSecretVersion(v) ==
    IF ValidateSecret # Nil THEN ValidateSecret
    ELSE IF v \in 1..Len(versions) THEN Nil
    ELSE NotFound

GetCreateTime(v) == versions[v].createTime

\* GetSecretLabels answering for a secret that is not there with no labels
GetSecretLabelsOfMissing == [labels |-> labels, err |-> Nil]

GetSecretLabels ==
    IF ValidateSecret # Nil THEN [labels |-> EmptyLabels, err |-> ValidateSecret]
    ELSE [labels |-> labels, err |-> Nil]

----------------------------------------------------------------------------
(* The rotator's decisions *)

\* ShouldRefresh with !now.Before in place of now.After
ShouldRefreshAtBoundary(t) ==
    LET err == ValidateSecretVersion(1) IN
    IF err # Nil
    THEN IF err = NotFound THEN [res |-> TRUE, err |-> Nil]
                           ELSE [res |-> FALSE, err |-> err]
    ELSE IF spec.interval # 0 /\ t >= GetCreateTime(Latest) + spec.interval
         THEN [res |-> TRUE, err |-> Nil]
         ELSE [res |-> FALSE, err |-> Nil]

\* ShouldRefresh returning every error of ValidateSecretVersion, NotFound too
ShouldRefreshNotFoundIsError(t) ==
    LET err == ValidateSecretVersion(1) IN
    IF err # Nil
    THEN [res |-> FALSE, err |-> err]
    ELSE IF spec.interval # 0 /\ t > GetCreateTime(Latest) + spec.interval
         THEN [res |-> TRUE, err |-> Nil]
         ELSE [res |-> FALSE, err |-> Nil]

\* ShouldRefresh without the comparison of now to createTime(latest) + interval
ShouldRefreshEveryPass(t) ==
    LET err == ValidateSecretVersion(1) IN
    IF err # Nil
    THEN IF err = NotFound THEN [res |-> TRUE, err |-> Nil]
                           ELSE [res |-> FALSE, err |-> err]
    ELSE IF spec.interval # 0
         THEN [res |-> TRUE, err |-> Nil]
         ELSE [res |-> FALSE, err |-> Nil]

ShouldRefresh(t) ==
    LET err == ValidateSecretVersion(1) IN
    IF err # Nil
    THEN IF err = NotFound THEN [res |-> TRUE, err |-> Nil]
                           ELSE [res |-> FALSE, err |-> err]
    ELSE IF spec.interval # 0 /\ t > GetCreateTime(Latest) + spec.interval
         THEN [res |-> TRUE, err |-> Nil]
         ELSE [res |-> FALSE, err |-> Nil]

\* ShouldDeactivate measuring the grace period from the version's own createTime
ShouldDeactivateOwnCreateTime(v, t) ==
    LET nextVersion == v + 1
        err == ValidateSecretVersion(v)
        nerr == ValidateSecretVersion(nextVersion)
    IN
    IF err # Nil THEN [res |-> FALSE, err |-> err]
    ELSE IF nerr # Nil
         THEN IF nerr = NotFound THEN [res |-> FALSE, err |-> Nil]
                                 ELSE [res |-> FALSE, err |-> nerr]
    ELSE IF t > GetCreateTime(v) + spec.gracePeriod
         THEN [res |-> TRUE, err |-> Nil]
         ELSE [res |-> FALSE, err |-> Nil]

\* ShouldDeactivate without the check that nextVersion exists
ShouldDeactivateLatestToo(v, t) ==
    LET err == ValidateSecretVersion(v)
        anchor == IF ValidateSecretVersion(v + 1) = Nil THEN v + 1 ELSE v
    IN
    IF err # Nil THEN [res |-> FALSE, err |-> err]
    ELSE IF t > GetCreateTime(anchor) + spec.gracePeriod
         THEN [res |-> TRUE, err |-> Nil]
         ELSE [res |-> FALSE, err |-> Nil]

\* ShouldDeactivate with !now.Before in place of now.After
ShouldDeactivateAtBoundary(v, t) ==
    LET nextVersion == v + 1
        err == ValidateSecretVersion(v)
        nerr == ValidateSecretVersion(nextVersion)
    IN
    IF err # Nil THEN [res |-> FALSE, err |-> err]
    ELSE IF nerr # Nil
         THEN IF nerr = NotFound THEN [res |-> FALSE, err |-> Nil]
                                 ELSE [res |-> FALSE, err |-> nerr]
    ELSE IF t >= GetCreateTime(nextVersion) + spec.gracePeriod
         THEN [res |-> TRUE, err |-> Nil]
         ELSE [res |-> FALSE, err |-> Nil]

ShouldDeactivate(v, t) ==
    LET nextVersion == v + 1
        err == ValidateSecretVersion(v)
        nerr == ValidateSecretVersion(nextVersion)
    IN
    IF err # Nil THEN [res |-> FALSE, err |-> err]
    ELSE IF nerr # Nil
         THEN IF nerr = NotFound THEN [res |-> FALSE, err |-> Nil]
                                 ELSE [res |-> FALSE, err |-> nerr]
    ELSE IF t > GetCreateTime(nextVersion) + spec.gracePeriod
         THEN [res |-> TRUE, err |-> Nil]
         ELSE [res |-> FALSE, err |-> Nil]

----------------------------------------------------------------------------
(* Values of the secret sync controller *)

\* a Go []byte: the nil slice, or a slice holding the bytes of b
NilBytes == [nil |-> TRUE, b |-> ""]
Bytes(s) == [nil |-> FALSE, b |-> s]

\* bytes.Equal: a nil slice equals an empty one
BytesEqual(x, y) == x.b = y.b

Payloads == {Bytes(""), Bytes("old-token"), Bytes("token")}

Sources == {"gsm-token", "gsm-password"}
Namespaces == {"ns-a", "ns-b"}

\* Agent.Config().Specs: the destinations differ, as Validate demands
SyncSpecs ==
    << [source |-> "gsm-token", namespace |-> "ns-a", secret |-> "secret-a", key |-> "key-a"],
       [source |-> "gsm-password", namespace |-> "ns-b", secret |-> "secret-b", key |-> "key-a"],
       [source |-> "gsm-token", namespace |-> "ns-a", secret |-> "secret-a", key |-> "key-b"] >>

EmptyMap == [k \in {} |-> 0]

NoSync ==
    [idx |-> 0, updated |-> FALSE, err |-> Nil, wrote |-> FALSE, src |-> NilBytes,
     srcErr |-> Nil, dest |-> NilBytes, before |-> EmptyMap, fault |-> FALSE,
     again |-> FALSE]

\* the sync controller is not part of the system
SyncOff ==
    /\ SecretManagerSecret = EmptyMap
    /\ K8sSecret = EmptyMap
    /\ si = 0
    /\ synced = <<>>
    /\ last = NoSync
    /\ without = EmptyMap
    /\ unsynced = {}

\* Start of the sync controller has not been called
StartOff ==
    /\ startpc = "off"
    /\ runOnce = FALSE
    /\ stop = [sig |-> "none", at |-> 0]
    /\ ticker = "off"
    /\ passes = 0

NoCallback == [op |-> "none", name |-> "", entryID |-> 0, wrote |-> 0, panicked |-> FALSE]

\* the cronAgent has started no callback
CallbackOff ==
    /\ started = {}
    /\ cb = NoCallback

\* the config agent is not part of the system
AgentOff ==
    /\ StartOff
    /\ CallbackOff
    /\ config = <<>>
    /\ apc = "off"
    /\ reload = [op |-> "none", err |-> Nil, scheduled |-> TRUE]
    /\ ranging = <<>>
    /\ ri = 0
    /\ visited = <<>>
    /\ validating = <<>>
    /\ validated = "none"
    /\ nextEntry = 0
    /\ cronlog = [op |-> "none"]
    /\ fired = EmptyMap

\* RunOnce over several specs is not part of the system
PassOff ==
    /\ gsm = EmptyMap
    /\ gsm0 = EmptyMap
    /\ pidx = 0
    /\ pstep = "idle"
    /\ plog = <<>>

----------------------------------------------------------------------------
(* Initial states *)

NoResult == [res |-> FALSE, err |-> Nil]
NoDecision == [version |-> 0, res |-> FALSE, err |-> Nil]
NoPre == [versions |-> <<>>, labels |-> EmptyLabels, nextKey |-> 0]
NoCall ==
    [failed |-> FALSE, tracked |-> FALSE, labels |-> EmptyLabels, versions |-> <<>>,
     err |-> Nil, refused |-> {}, faults |-> 0, keys |-> {}]

CronStrings == {"", "0 0 * * *"}

\* The secret as the rotator may find it: missing; empty; empty with a stray
\* version label; or holding a version that was published by hand.
InitStores ==
    { [exists |-> FALSE, versions |-> <<>>, labels |-> EmptyLabels],
      [exists |-> TRUE, versions |-> <<>>, labels |-> EmptyLabels],
      [exists |-> TRUE, versions |-> <<>>, labels |-> (VKey(3) :> 0)],
      [exists |-> TRUE,
       versions |-> <<[createTime |-> 0, data |-> <<"by-hand">>, state |-> ENABLED_]>>,
       labels |-> EmptyLabels] }

\* Cron.addPeriodic on the initial load of the config
InitCron ==
    IF spec.cron = "" THEN [n \in {} |-> 0]
    ELSE (SpecName :> [cronStr |-> spec.cron, triggered |-> FALSE])

\* RotatedSecretSpec of the config: a RefreshStrategy of an interval, of a cron
\* string, or of neither
RotatedSecretSpecs ==
    {s \in [interval : 0..MaxInterval, cron : CronStrings, gracePeriod : 0..MaxGrace] :
        s.interval = 0 \/ s.cron = ""}

Init ==
    /\ spec \in RotatedSecretSpecs
    /\ enableDeletion \in BOOLEAN
    /\ \E s \in InitStores :
          /\ secretExists = s.exists
          /\ versions = s.versions
          /\ labels = s.labels
    /\ iamKeys = {}
    /\ nextKey = 1
    /\ secrets = InitCron
    /\ clock = 0
    /\ pc = "idle"
    /\ now = 0
    /\ lbls = EmptyLabels
    /\ todo = {}
    /\ version = 0
    /\ newId = 0
    /\ newSecret = <<>>
    /\ latestVersion = 0
    /\ shouldRefresh = NoResult
    /\ refreshed = NoResult
    /\ shouldDeactivate = NoDecision
    /\ pre = NoPre
    /\ dcall = NoCall
    /\ revoked = {}
    /\ removed = [n \in {} |-> 0]
    /\ faults = 0
    /\ upserted = Nil
    /\ SyncOff
    /\ PassOff
    /\ AgentOff

----------------------------------------------------------------------------
(* Failure injection: a client or provisioner call may fail, MaxFaults times *)

Fault(f) ==
    /\ f => faults < MaxFaults
    /\ faults' = IF f THEN faults + 1 ELSE faults

ClearLocals ==
    /\ now' = 0
    /\ lbls' = EmptyLabels
    /\ todo' = {}
    /\ version' = 0
    /\ newId' = 0
    /\ newSecret' = <<>>
    /\ latestVersion' = 0

----------------------------------------------------------------------------
(* RunOnce: UpsertLabels, Refresh, Deactivate for the spec *)

\* RunOnce calls UpsertLabels and logs its error. The labels of `done` are
\* written before a call fails; all of them when none fails.
UpsertLabels ==
    /\ pc = "idle"
    /\ IF GetSecretLabels.err # Nil
       THEN /\ labels' = labels
            /\ faults' = faults
            /\ upserted' = GetSecretLabels.err
       ELSE \E done \in SUBSET DOMAIN TypeLabels :
               /\ Fault(done # DOMAIN TypeLabels)
               /\ labels' = Overlay(labels, [k \in done |-> TypeLabels[k]])
               /\ upserted' = IF done # DOMAIN TypeLabels THEN Unavailable ELSE Nil
    /\ pc' = "refresh"
    /\ UNCHANGED <<others, conf, secretExists, versions, iamKeys, nextKey, secrets, clock,
                   locals, ghosts>>

\* Refresh up to the provisioner call: ShouldRefresh, GetSecretLabels, the
\* provisioner's labels.
RefreshBegin ==
    /\ pc = "refresh"
    /\ LET sr == ShouldRefresh(clock)
           got == GetSecretLabels
       IN
       /\ now' = clock
       /\ shouldRefresh' = sr
       /\ pre' = [versions |-> versions, labels |-> labels, nextKey |-> nextKey]
       /\ IF sr.err # Nil \/ ~sr.res
          THEN /\ refreshed' = [res |-> FALSE, err |-> sr.err]
               /\ pc' = "refreshed"
               /\ lbls' = lbls
          ELSE IF got.err # Nil
          THEN /\ refreshed' = [res |-> FALSE, err |-> got.err]
               /\ pc' = "refreshed"
               /\ lbls' = lbls
          ELSE /\ refreshed' = NoResult
               /\ pc' = "createNew"
               /\ lbls' = Overlay(got.labels, TypeLabels)
    /\ UNCHANGED <<others, upserted, conf, store, iamKeys, nextKey, secrets, clock, todo, version,
                   newId, newSecret, latestVersion, shouldDeactivate, dcall,
                   revoked, removed, faults>>

\* client UpsertSecret: adds a version holding `data`, stamped by the store
UpsertSecret(data) ==
    Append(versions, [createTime |-> clock, data |-> data, state |-> ENABLED_])

\* Provisioner.CreateNew returning the id of one key with the private key of
\* another
CreateNewMismatched(f) ==
    IF f THEN [id |-> 0, payload |-> <<>>, err |-> ProvisionerError]
    ELSE [id |-> nextKey, payload |-> PrivateKeyData(nextKey + 1), err |-> Nil]

\* Provisioner.CreateNew: Keys.Create mints a key; its id and private key
CreateNew(f) ==
    IF f THEN [id |-> 0, payload |-> <<>>, err |-> ProvisionerError]
    ELSE [id |-> nextKey, payload |-> PrivateKeyData(nextKey), err |-> Nil]

\* RefreshCreateNew looking at CreateNew's error only after it has published
\* what CreateNew returned
RefreshCreateNewChecksLate ==
    /\ pc = "createNew"
    /\ \E f \in BOOLEAN :
          /\ Fault(f)
          /\ LET r == CreateNew(f) IN
             IF r.err # Nil
             THEN /\ refreshed' = [res |-> FALSE, err |-> r.err]
                  /\ versions' = UpsertSecret(r.payload)
                  /\ pc' = "refreshed"
                  /\ UNCHANGED <<newId, newSecret, iamKeys, nextKey>>
             ELSE /\ newId' = r.id
                  /\ newSecret' = r.payload
                  /\ iamKeys' = iamKeys \cup {r.id}
                  /\ nextKey' = nextKey + 1
                  /\ pc' = "upsertSecret"
                  /\ UNCHANGED <<refreshed, versions>>
    /\ UNCHANGED <<others, upserted, conf, secretExists, labels, secrets, clock, now, lbls, todo,
                   version, latestVersion, shouldRefresh, shouldDeactivate, pre, dcall,
                   revoked, removed>>

RefreshCreateNew ==
    /\ pc = "createNew"
    /\ \E f \in BOOLEAN :
          /\ Fault(f)
          /\ LET r == CreateNew(f) IN
             IF r.err # Nil
             THEN /\ refreshed' = [res |-> FALSE, err |-> r.err]
                  /\ pc' = "refreshed"
                  /\ UNCHANGED <<newId, newSecret, iamKeys, nextKey>>
             ELSE /\ newId' = r.id
                  /\ newSecret' = r.payload
                  /\ iamKeys' = iamKeys \cup {r.id}
                  /\ nextKey' = nextKey + 1
                  /\ pc' = "upsertSecret"
                  /\ refreshed' = refreshed
    /\ UNCHANGED <<others, upserted, conf, store, secrets, clock, now, lbls, todo, version,
                   latestVersion, shouldRefresh, shouldDeactivate, pre, dcall,
                   revoked, removed>>

RefreshUpsertSecret ==
    /\ pc = "upsertSecret"
    /\ \E f \in BOOLEAN :
          /\ Fault(f)
          /\ IF f
             THEN /\ refreshed' = [res |-> FALSE, err |-> Unavailable]
                  /\ pc' = "refreshed"
                  /\ UNCHANGED <<versions, latestVersion>>
             ELSE /\ versions' = UpsertSecret(newSecret)
                  /\ latestVersion' = Len(versions) + 1
                  /\ pc' = "upsertSecretLabel"
                  /\ refreshed' = refreshed
    /\ UNCHANGED <<others, upserted, conf, secretExists, labels, iamKeys, nextKey, secrets, clock,
                   now, lbls, todo, version, newId, newSecret, shouldRefresh,
                   shouldDeactivate, pre, dcall, revoked, removed>>

\* client UpsertSecretLabel("v" + latestVersion, newId), then return true
RefreshUpsertSecretLabel ==
    /\ pc = "upsertSecretLabel"
    /\ \E f \in BOOLEAN :
          /\ Fault(f)
          /\ IF f
             THEN /\ refreshed' = [res |-> FALSE, err |-> Unavailable]
                  /\ labels' = labels
             ELSE /\ labels' = Upsert(labels, VKey(latestVersion), newId)
                  /\ refreshed' = [res |-> TRUE, err |-> Nil]
    /\ pc' = "refreshed"
    /\ UNCHANGED <<others, upserted, conf, secretExists, versions, iamKeys, nextKey, secrets, clock,
                   locals, shouldRefresh, shouldDeactivate, pre, dcall, revoked,
                   removed>>

\* every version that is not DESTROYED has its v<N> label
Tracked ==
    \A n \in 1..Len(versions) :
        versions[n].state # DESTROYED => VKey(n) \in DOMAIN labels

\* Deactivate up to its loop: GetSecretLabels, the provisioner's labels
DeactivateBegin ==
    /\ pc = "refreshed"
    /\ LET got == GetSecretLabels IN
       /\ now' = clock
       /\ IF got.err # Nil
          THEN /\ pc' = "deactivated"
               /\ lbls' = EmptyLabels
               /\ todo' = {}
               /\ dcall' = [failed |-> TRUE, tracked |-> Tracked, labels |-> labels,
                            versions |-> versions, err |-> got.err, refused |-> {},
                            faults |-> faults, keys |-> iamKeys]
          ELSE /\ pc' = "range"
               /\ lbls' = Overlay(got.labels, TypeLabels)
               /\ todo' = {k \in DOMAIN Overlay(got.labels, TypeLabels) : Matched(k)}
               /\ dcall' = [failed |-> FALSE, tracked |-> Tracked, labels |-> labels,
                            versions |-> versions, err |-> Nil, refused |-> {},
                            faults |-> faults, keys |-> iamKeys]
    /\ UNCHANGED <<others, upserted, conf, store, iamKeys, nextKey, secrets, clock, version, newId,
                   newSecret, latestVersion, shouldRefresh, refreshed,
                   shouldDeactivate, pre, revoked, removed, faults>>

\* DeactivateRange returning the error of ShouldDeactivate instead of logging it
DeactivateRangeReturnsError ==
    /\ pc = "range"
    /\ \E key \in todo :
          /\ todo' = todo \ {key}
          /\ LET sd == ShouldDeactivate(Atoi(key), now) IN
             /\ shouldDeactivate' =
                   [version |-> Atoi(key), res |-> sd.res, err |-> sd.err]
             /\ dcall' = [dcall EXCEPT !.failed = @ \/ sd.err # Nil, !.err = sd.err]
             /\ IF sd.err # Nil
                THEN /\ pc' = "deactivated"
                     /\ version' = version
                ELSE IF sd.res
                THEN /\ version' = Atoi(key)
                     /\ pc' = "provisioner"
                ELSE UNCHANGED <<pc, version>>
    /\ UNCHANGED <<others, upserted, conf, store, iamKeys, nextKey, secrets, clock, now, lbls, newId,
                   newSecret, latestVersion, shouldRefresh, refreshed, pre,
                   revoked, removed, faults>>

\* One turn of `for key := range labels` up to the provisioner call, for a key
\* the regexp matches (the loop skips the others): the map's iteration order
\* is any order.
DeactivateRange ==
    /\ pc = "range"
    /\ \E key \in todo :
          /\ todo' = todo \ {key}
          /\ LET sd == ShouldDeactivate(Atoi(key), now) IN
             /\ shouldDeactivate' =
                   [version |-> Atoi(key), res |-> sd.res, err |-> sd.err]
             /\ dcall' = [dcall EXCEPT !.failed = @ \/ sd.err # Nil]
             /\ IF sd.res
                THEN /\ version' = Atoi(key)
                     /\ pc' = "provisioner"
                ELSE UNCHANGED <<pc, version>>
    /\ UNCHANGED <<others, upserted, conf, store, iamKeys, nextKey, secrets, clock, now, lbls, newId,
                   newSecret, latestVersion, shouldRefresh, refreshed, pre,
                   revoked, removed, faults>>

\* Provisioner.Deactivate returning nil although Keys.Delete failed
ProvisionerDeactivateSwallow(f) ==
    LET id == lbls[VKey(version)] IN
    IF enableDeletion /\ ~f /\ id \in iamKeys
    THEN [keys |-> iamKeys \ {id}, err |-> Nil]
    ELSE [keys |-> iamKeys, err |-> Nil]

\* Provisioner.Deactivate(labels, version): with enableDeletion, Keys.Delete
\* of the key labels["v"+version], which fails for a key that is not there;
\* without it, a log line.
ProvisionerDeactivate(f) ==
    LET id == lbls[VKey(version)] IN
    IF enableDeletion
    THEN IF f \/ id \notin iamKeys
         THEN [keys |-> iamKeys, err |-> ProvisionerError]
         ELSE [keys |-> iamKeys \ {id}, err |-> Nil]
    ELSE [keys |-> iamKeys, err |-> Nil]

\* DeactivateProvisioner without the `continue` after a failed Deactivate
DeactivateProvisionerNoContinue ==
    /\ pc = "provisioner"
    /\ \E f \in BOOLEAN :
          /\ Fault(f /\ enableDeletion)
          /\ f => enableDeletion
          /\ LET r == ProvisionerDeactivate(f) IN
             /\ iamKeys' = r.keys
             /\ pc' = "destroy"
             /\ IF r.err # Nil
                THEN /\ dcall' = [dcall EXCEPT !.failed = TRUE,
                                               !.refused = @ \cup {version}]
                     /\ revoked' = revoked
                ELSE /\ dcall' = dcall
                     /\ revoked' = revoked \cup {version}
    /\ UNCHANGED <<others, upserted, conf, store, nextKey, secrets, clock, locals, shouldRefresh,
                   refreshed, shouldDeactivate, pre, removed>>

DeactivateProvisioner ==
    /\ pc = "provisioner"
    /\ \E f \in BOOLEAN :
          /\ Fault(f /\ enableDeletion)
          /\ f => enableDeletion
          /\ LET r == ProvisionerDeactivate(f) IN
             /\ iamKeys' = r.keys
             /\ IF r.err # Nil
                THEN /\ pc' = "range"
                     /\ dcall' = [dcall EXCEPT !.failed = TRUE,
                                               !.refused = @ \cup {version}]
                     /\ revoked' = revoked
                ELSE /\ pc' = "destroy"
                     /\ dcall' = dcall
                     /\ revoked' = revoked \cup {version}
    /\ UNCHANGED <<others, upserted, conf, store, nextKey, secrets, clock, locals, shouldRefresh,
                   refreshed, shouldDeactivate, pre, removed>>

\* a DestroySecretVersion that deletes the version
DestroySecretVersionDeletes(v) ==
    [i \in 1..(Len(versions) - 1) |-> IF i < v THEN versions[i] ELSE versions[i + 1]]

\* client DestroySecretVersion(version)
DestroySecretVersion(v) == [versions EXCEPT ![v].state = DESTROYED]

\* DeactivateDestroy without the `continue` after a failed DestroySecretVersion
DeactivateDestroyNoContinue ==
    /\ pc = "destroy"
    /\ \E f \in BOOLEAN :
          /\ Fault(f)
          /\ IF f \/ ValidateSecretVersion(version) # Nil
             THEN /\ dcall' = [dcall EXCEPT !.failed = TRUE]
                  /\ versions' = versions
             ELSE /\ dcall' = dcall
                  /\ versions' = DestroySecretVersion(version)
    /\ pc' = "deleteLabel"
    /\ UNCHANGED <<others, upserted, conf, secretExists, labels, iamKeys, nextKey, secrets, clock,
                   locals, shouldRefresh, refreshed, shouldDeactivate, pre,
                   revoked, removed>>

DeactivateDestroy ==
    /\ pc = "destroy"
    /\ \E f \in BOOLEAN :
          /\ Fault(f)
          /\ IF f \/ ValidateSecretVersion(version) # Nil
             THEN /\ pc' = "range"
                  /\ dcall' = [dcall EXCEPT !.failed = TRUE]
                  /\ versions' = versions
             ELSE /\ pc' = "deleteLabel"
                  /\ dcall' = dcall
                  /\ versions' = DestroySecretVersion(version)
    /\ UNCHANGED <<others, upserted, conf, secretExists, labels, iamKeys, nextKey, secrets, clock,
                   locals, shouldRefresh, refreshed, shouldDeactivate, pre,
                   revoked, removed>>

\* client DeleteSecretLabel("v" + version)
DeactivateDeleteLabel ==
    /\ pc = "deleteLabel"
    /\ \E f \in BOOLEAN :
          /\ Fault(f)
          /\ IF f
             THEN /\ dcall' = [dcall EXCEPT !.failed = TRUE]
                  /\ UNCHANGED <<labels, removed>>
             ELSE /\ dcall' = dcall
                  /\ labels' = Delete(labels, VKey(version))
                  /\ removed' = IF VKey(version) \in DOMAIN labels
                                THEN (version :> labels[VKey(version)]) @@ removed
                                ELSE removed
    /\ pc' = "range"
    /\ UNCHANGED <<others, upserted, conf, secretExists, versions, iamKeys, nextKey, secrets, clock,
                   locals, shouldRefresh, refreshed, shouldDeactivate, pre,
                   revoked>>

\* the loop is over: return nil
DeactivateReturn ==
    /\ pc = "range"
    /\ todo = {}
    /\ pc' = "deactivated"
    /\ UNCHANGED <<others, upserted, conf, store, iamKeys, nextKey, secrets, clock, locals, ghosts,
                   faults>>

\* RunOnce has handled the spec
RunOnceReturn ==
    /\ pc = "deactivated"
    /\ pc' = "idle"
    /\ ClearLocals
    /\ shouldRefresh' = NoResult
    /\ refreshed' = NoResult
    /\ shouldDeactivate' = NoDecision
    /\ pre' = NoPre
    /\ dcall' = NoCall
    /\ upserted' = Nil
    /\ UNCHANGED <<others, conf, store, iamKeys, nextKey, secrets, clock, revoked, removed,
                   faults>>

\* The rotator process stops between two calls; the next pass starts afresh.
Crash ==
    /\ pc # "idle"
    /\ Fault(TRUE)
    /\ pc' = "idle"
    /\ ClearLocals
    /\ shouldRefresh' = NoResult
    /\ refreshed' = NoResult
    /\ shouldDeactivate' = NoDecision
    /\ pre' = NoPre
    /\ dcall' = NoCall
    /\ upserted' = Nil
    /\ UNCHANGED <<others, conf, store, iamKeys, nextKey, secrets, clock, revoked, removed>>

----------------------------------------------------------------------------
(* The environment *)

\* Time passes.
Tick ==
    /\ clock < MaxTime
    /\ clock' = clock + 1
    /\ UNCHANGED <<others, upserted, conf, store, iamKeys, nextKey, secrets, pc, locals, ghosts, faults>>

\* The callback Cron.addSecret registers: the cron entry of `name` fires.
CronFire ==
    /\ \E name \in DOMAIN secrets :
          secrets' = [secrets EXCEPT ![name].triggered = TRUE]
    /\ UNCHANGED <<others, upserted, conf, store, iamKeys, nextKey, clock, pc, locals, ghosts, faults>>

Next ==
    \/ UpsertLabels
    \/ RefreshBegin
    \/ RefreshCreateNew
    \/ RefreshUpsertSecret
    \/ RefreshUpsertSecretLabel
    \/ DeactivateBegin
    \/ DeactivateRange
    \/ DeactivateProvisioner
    \/ DeactivateDestroy
    \/ DeactivateDeleteLabel
    \/ DeactivateReturn
    \/ RunOnceReturn
    \/ Crash
    \/ Tick
    \/ CronFire

Spec == Init /\ [][Next]_vars

----------------------------------------------------------------------------
(* The secret sync controller: Secret Manager secrets, the cluster's secrets, *)
(* and SyncAll over the specs of the config.                                   *)

GetSecretManagerSecretValue(sm, id) ==
    IF id \in DOMAIN sm THEN [val |-> sm[id], err |-> Nil]
    ELSE [val |-> NilBytes, err |-> NotFound]

ValidateKubernetesNamespace(k8s, namespace) ==
    IF namespace \in DOMAIN k8s THEN Nil ELSE NotFound

ValidateKubernetesSecret(k8s, namespace, id) ==
    IF namespace \in DOMAIN k8s /\ id \in DOMAIN k8s[namespace] THEN Nil ELSE NotFound

\* GetKubernetesSecretValue answering (nil, nil) for a namespace that is not there
GetKubernetesSecretValueNoNamespace(k8s, namespace, id, key) ==
    IF ValidateKubernetesSecret(k8s, namespace, id) # Nil
    THEN [val |-> NilBytes, err |-> Nil]
    ELSE IF key \notin DOMAIN k8s[namespace][id]
    THEN [val |-> NilBytes, err |-> Nil]
    ELSE [val |-> k8s[namespace][id][key], err |-> Nil]

GetKubernetesSecretValue(k8s, namespace, id, key) ==
    IF ValidateKubernetesNamespace(k8s, namespace) # Nil
    THEN [val |-> NilBytes, err |-> ValidateKubernetesNamespace(k8s, namespace)]
    ELSE IF ValidateKubernetesSecret(k8s, namespace, id) # Nil
    THEN [val |-> NilBytes, err |-> Nil]
    ELSE IF key \notin DOMAIN k8s[namespace][id]
    THEN [val |-> NilBytes, err |-> Nil]
    ELSE [val |-> k8s[namespace][id][key], err |-> Nil]

\* UpsertKubernetesSecret putting a secret that holds the one key in place of
\* the secret that is there
UpsertKubernetesSecretReplaces(k8s, namespace, id, key, data, f) ==
    IF ValidateKubernetesNamespace(k8s, namespace) # Nil
    THEN [cluster |-> k8s, err |-> ValidateKubernetesNamespace(k8s, namespace)]
    ELSE IF f THEN [cluster |-> k8s, err |-> Unavailable]
    ELSE [cluster |-> [k8s EXCEPT ![namespace] = Upsert(@, id, (key :> data))],
          err |-> Nil]

\* UpsertKubernetesSecret patching the secret without creating one that is
\* not there
UpsertKubernetesSecretNoCreate(k8s, namespace, id, key, data, f) ==
    IF ValidateKubernetesNamespace(k8s, namespace) # Nil
    THEN [cluster |-> k8s, err |-> ValidateKubernetesNamespace(k8s, namespace)]
    ELSE IF f THEN [cluster |-> k8s, err |-> Unavailable]
    ELSE IF ValidateKubernetesSecret(k8s, namespace, id) # Nil
    THEN [cluster |-> k8s, err |-> NotFound]
    ELSE [cluster |-> [k8s EXCEPT ![namespace][id] = Upsert(@, key, data)], err |-> Nil]

\* UpsertKubernetesSecret: sets the key of the secret, which it creates when
\* it is not there; f: the cluster refuses the write
UpsertKubernetesSecret(k8s, namespace, id, key, data, f) ==
    IF ValidateKubernetesNamespace(k8s, namespace) # Nil
    THEN [cluster |-> k8s, err |-> ValidateKubernetesNamespace(k8s, namespace)]
    ELSE IF f THEN [cluster |-> k8s, err |-> Unavailable]
    ELSE LET old == IF ValidateKubernetesSecret(k8s, namespace, id) # Nil
                    THEN EmptyMap ELSE k8s[namespace][id]
         IN [cluster |-> [k8s EXCEPT ![namespace] = Upsert(@, id, Upsert(old, key, data))],
             err |-> Nil]

\* Sync without the comparison of the source with the destination
SyncAlwaysWrites(s, sm, k8s, f) ==
    LET src == GetSecretManagerSecretValue(sm, s.source)
        dest == GetKubernetesSecretValue(k8s, s.namespace, s.secret, s.key)
        up == UpsertKubernetesSecret(k8s, s.namespace, s.secret, s.key, src.val, f)
    IN
    IF src.err # Nil
    THEN [updated |-> FALSE, err |-> src.err, cluster |-> k8s, wrote |-> FALSE]
    ELSE IF dest.err # Nil
    THEN [updated |-> FALSE, err |-> dest.err, cluster |-> k8s, wrote |-> FALSE]
    ELSE IF up.err # Nil
    THEN [updated |-> FALSE, err |-> up.err, cluster |-> up.cluster, wrote |-> TRUE]
    ELSE [updated |-> TRUE, err |-> Nil, cluster |-> up.cluster, wrote |-> TRUE]

\* Sync(spec): what it returns, the cluster it leaves, and whether it called
\* UpsertKubernetesSecret
Sync(s, sm, k8s, f) ==
    LET src == GetSecretManagerSecretValue(sm, s.source)
        dest == GetKubernetesSecretValue(k8s, s.namespace, s.secret, s.key)
        up == UpsertKubernetesSecret(k8s, s.namespace, s.secret, s.key, src.val, f)
    IN
    IF src.err # Nil
    THEN [updated |-> FALSE, err |-> src.err, cluster |-> k8s, wrote |-> FALSE]
    ELSE IF dest.err # Nil
    THEN [updated |-> FALSE, err |-> dest.err, cluster |-> k8s, wrote |-> FALSE]
    ELSE IF BytesEqual(src.val, dest.val)
    THEN [updated |-> FALSE, err |-> Nil, cluster |-> k8s, wrote |-> FALSE]
    ELSE IF up.err # Nil
    THEN [updated |-> FALSE, err |-> up.err, cluster |-> up.cluster, wrote |-> TRUE]
    ELSE [updated |-> TRUE, err |-> Nil, cluster |-> up.cluster, wrote |-> TRUE]

\* SyncAll returning at the first error of Sync
SyncAllStopsOnError(i, err) == IF err # Nil THEN Len(SyncSpecs) + 1 ELSE i + 1

\* SyncAll logs the error of Sync and takes the next spec
SyncAllNext(i, err) == i + 1

InitClusters ==
    { ("ns-a" :> EmptyMap),
      ("ns-a" :> EmptyMap) @@ ("ns-b" :> EmptyMap),
      ("ns-a" :> ("secret-a" :> ("key-a" :> Bytes("old-token")))) @@ ("ns-b" :> EmptyMap) }

\* the rotator is not part of the system
RotatorOff ==
    /\ spec = [interval |-> 0, cron |-> "", gracePeriod |-> 0]
    /\ enableDeletion = FALSE
    /\ secretExists = FALSE
    /\ versions = <<>>
    /\ labels = EmptyLabels
    /\ iamKeys = {}
    /\ nextKey = 0
    /\ secrets = EmptyMap
    /\ clock = 0
    /\ pc = "idle"
    /\ now = 0
    /\ lbls = EmptyLabels
    /\ todo = {}
    /\ version = 0
    /\ newId = 0
    /\ newSecret = <<>>
    /\ latestVersion = 0
    /\ shouldRefresh = NoResult
    /\ refreshed = NoResult
    /\ shouldDeactivate = NoDecision
    /\ pre = NoPre
    /\ dcall = NoCall
    /\ revoked = {}
    /\ removed = EmptyMap
    /\ upserted = Nil

SyncInit ==
    /\ RotatorOff
    /\ PassOff
    /\ AgentOff
    /\ faults = 0
    /\ SecretManagerSecret \in
          {[id \in S |-> Bytes("token")] : S \in SUBSET Sources}
    /\ K8sSecret \in InitClusters
    /\ si = 0
    /\ synced = <<>>
    /\ last = NoSync
    /\ without = EmptyMap
    /\ unsynced = {}

\* SyncAll starts on the specs of the config
SyncAllBegin ==
    /\ si = 0
    /\ si' = SyncAllNext(si, Nil)
    /\ synced' = <<>>
    /\ without' = K8sSecret
    /\ UNCHANGED <<rotatorVars, faults, SecretManagerSecret, K8sSecret, last, unsynced>>

\* one turn of SyncAll's loop: Sync(spec), the error logged
SyncAllSync ==
    /\ si \in 1..Len(SyncSpecs)
    /\ \E f \in BOOLEAN :
          LET s == SyncSpecs[si]
              r == Sync(s, SecretManagerSecret, K8sSecret, f)
              src == GetSecretManagerSecretValue(SecretManagerSecret, s.source)
              dest == GetKubernetesSecretValue(K8sSecret, s.namespace, s.secret, s.key)
          IN
          /\ f => r.wrote
          /\ Fault(f)
          /\ K8sSecret' = r.cluster
          /\ last' = [idx |-> si, updated |-> r.updated, err |-> r.err,
                      wrote |-> r.wrote, src |-> src.val, srcErr |-> src.err,
                      dest |-> dest.val, before |-> K8sSecret, fault |-> f,
                      again |-> si \in unsynced]
          /\ unsynced' = IF r.err # Nil THEN unsynced \cup {si} ELSE unsynced \ {si}
          /\ synced' = Append(synced, [idx |-> si, err |-> r.err])
          /\ without' = IF r.err # Nil THEN without
                         ELSE Sync(s, SecretManagerSecret, without, FALSE).cluster
          /\ si' = SyncAllNext(si, r.err)
    /\ UNCHANGED <<rotatorVars, SecretManagerSecret>>

\* SyncAll returns
SyncAllReturn ==
    /\ si = Len(SyncSpecs) + 1
    /\ si' = 0
    /\ synced' = <<>>
    /\ without' = EmptyMap
    /\ UNCHANGED <<rotatorVars, faults, SecretManagerSecret, K8sSecret, last, unsynced>>

\* a new version of a Secret Manager secret is published
UpsertSecretManagerSecret(id, data) ==
    /\ SecretManagerSecret' = Upsert(SecretManagerSecret, id, data)
    /\ last' = NoSync
    /\ UNCHANGED <<rotatorVars, faults, K8sSecret, si, synced, without, unsynced>>

DeleteSecretManagerSecret(id) ==
    /\ id \in DOMAIN SecretManagerSecret
    /\ SecretManagerSecret' = Delete(SecretManagerSecret, id)
    /\ last' = NoSync
    /\ UNCHANGED <<rotatorVars, faults, K8sSecret, si, synced, without, unsynced>>

CreateNamespace(k8s, namespace) ==
    IF namespace \in DOMAIN k8s THEN k8s ELSE Upsert(k8s, namespace, EmptyMap)

CleanupSecrets(k8s, namespace) ==
    IF namespace \in DOMAIN k8s THEN [k8s EXCEPT ![namespace] = EmptyMap] ELSE k8s

CreateKubernetesNamespace(namespace) ==
    /\ namespace \notin DOMAIN K8sSecret
    /\ K8sSecret' = CreateNamespace(K8sSecret, namespace)
    /\ without' = IF si = 0 THEN without ELSE CreateNamespace(without, namespace)
    /\ last' = NoSync
    /\ UNCHANGED <<rotatorVars, faults, SecretManagerSecret, si, synced, unsynced>>

CleanupKubernetesNamespace(namespace) ==
    /\ namespace \in DOMAIN K8sSecret
    /\ K8sSecret' = Delete(K8sSecret, namespace)
    /\ without' = IF si = 0 THEN without ELSE Delete(without, namespace)
    /\ last' = NoSync
    /\ UNCHANGED <<rotatorVars, faults, SecretManagerSecret, si, synced, unsynced>>

CleanupKubernetesSecrets(namespace) ==
    /\ namespace \in DOMAIN K8sSecret
    /\ K8sSecret[namespace] # EmptyMap
    /\ K8sSecret' = CleanupSecrets(K8sSecret, namespace)
    /\ without' = IF si = 0 THEN without ELSE CleanupSecrets(without, namespace)
    /\ last' = NoSync
    /\ UNCHANGED <<rotatorVars, faults, SecretManagerSecret, si, synced, unsynced>>

SyncNext ==
    \/ SyncAllBegin
    \/ SyncAllSync
    \/ SyncAllReturn
    \/ \E id \in Sources, data \in Payloads : UpsertSecretManagerSecret(id, data)
    \/ \E id \in Sources : DeleteSecretManagerSecret(id)
    \/ \E namespace \in Namespaces : CreateKubernetesNamespace(namespace)
    \/ \E namespace \in Namespaces : CleanupKubernetesNamespace(namespace)
    \/ \E namespace \in Namespaces : CleanupKubernetesSecrets(namespace)

SyncSpec == SyncInit /\ [][SyncNext]_vars

----------------------------------------------------------------------------
(* RunOnce over a config of several rotation specs. Each of the three steps  *)
(* RunOnce takes for a spec is one step here; the specs share the refresh     *)
(* interval and the grace period of `spec`; a pass is short against the unit  *)
(* of time.                                                                   *)

\* Agent.Config().Specs: the secrets and the service accounts differ
Specs ==
    << [secret |-> "secret-1", account |-> "service-1"],
       [secret |-> "secret-2", account |-> "service-2"] >>

\* ServiceAccountKeySpec.Labels() of the spec
TypeLabelsOf(s) ==
    (<<"project">> :> "project-1") @@ (<<"service-account">> :> s.account)

\* a secret that is not there, and one that has no version yet
InitSecrets ==
    { [exists |-> FALSE, versions |-> <<>>, labels |-> EmptyLabels, keys |-> {},
       nextKey |-> 1],
      [exists |-> TRUE, versions |-> <<>>, labels |-> EmptyLabels, keys |-> {},
       nextKey |-> 1] }

ValidateSecretVersionOf(st, v) ==
    IF ~st.exists THEN NotFound
    ELSE IF v \in 1..Len(st.versions) THEN Nil
    ELSE NotFound

GetSecretLabelsOf(st) ==
    IF ~st.exists THEN [labels |-> EmptyLabels, err |-> NotFound]
    ELSE [labels |-> st.labels, err |-> Nil]

\* UpsertLabels(rotatedSecret): the labels of `done` are written before a
\* call fails
UpsertLabelsOf(st, s, done) ==
    IF GetSecretLabelsOf(st).err # Nil
    THEN [st |-> st, err |-> GetSecretLabelsOf(st).err]
    ELSE [st |-> [st EXCEPT !.labels = Overlay(@, [k \in done |-> TypeLabelsOf(s)[k]])],
          err |-> IF done # DOMAIN TypeLabelsOf(s) THEN Unavailable ELSE Nil]

ShouldRefreshOf(st, t) ==
    LET err == ValidateSecretVersionOf(st, 1) IN
    IF err # Nil
    THEN IF err = NotFound THEN [res |-> TRUE, err |-> Nil]
                           ELSE [res |-> FALSE, err |-> err]
    ELSE IF spec.interval # 0
            /\ t > st.versions[Len(st.versions)].createTime + spec.interval
         THEN [res |-> TRUE, err |-> Nil]
         ELSE [res |-> FALSE, err |-> Nil]

\* the calls of Refresh that may fail
RefreshCalls == {"CreateNew", "UpsertSecret", "UpsertSecretLabel"}

\* Refresh(rotatedSecret, now); f: the call that fails, if one does
RefreshOf(st, s, t, f) ==
    LET sr == ShouldRefreshOf(st, t)
        got == GetSecretLabelsOf(st)
        minted == [st EXCEPT !.keys = @ \cup {st.nextKey}, !.nextKey = @ + 1]
        published ==
            [minted EXCEPT !.versions =
                Append(@, [createTime |-> t, data |-> PrivateKeyData(st.nextKey),
                           state |-> ENABLED_])]
        labelled ==
            [published EXCEPT !.labels =
                Upsert(@, VKey(Len(published.versions)), st.nextKey)]
    IN
    IF sr.err # Nil THEN [st |-> st, res |-> FALSE, err |-> sr.err]
    ELSE IF ~sr.res THEN [st |-> st, res |-> FALSE, err |-> Nil]
    ELSE IF got.err # Nil THEN [st |-> st, res |-> FALSE, err |-> got.err]
    ELSE IF f = "CreateNew" THEN [st |-> st, res |-> FALSE, err |-> ProvisionerError]
    ELSE IF f = "UpsertSecret" THEN [st |-> minted, res |-> FALSE, err |-> Unavailable]
    ELSE IF f = "UpsertSecretLabel"
    THEN [st |-> published, res |-> FALSE, err |-> Unavailable]
    ELSE [st |-> labelled, res |-> TRUE, err |-> Nil]

ShouldDeactivateOf(st, v, t) ==
    LET err == ValidateSecretVersionOf(st, v)
        nerr == ValidateSecretVersionOf(st, v + 1)
    IN
    IF err # Nil THEN [res |-> FALSE, err |-> err]
    ELSE IF nerr # Nil
         THEN IF nerr = NotFound THEN [res |-> FALSE, err |-> Nil]
                                 ELSE [res |-> FALSE, err |-> nerr]
    ELSE IF t > st.versions[v + 1].createTime + spec.gracePeriod
         THEN [res |-> TRUE, err |-> Nil]
         ELSE [res |-> FALSE, err |-> Nil]

\* the versions Deactivate(rotatedSecret, now) finds due
DueOf(st, s, t) ==
    {n \in VLabels(Overlay(st.labels, TypeLabelsOf(s))) : ShouldDeactivateOf(st, n, t).res}

\* Deactivate(rotatedSecret, now); refused: the versions for which Keys.Delete
\* fails. The loop's turns do not depend on one another, so its order does
\* not matter.
DeactivateOf(st, s, t, refused) ==
    LET got == GetSecretLabelsOf(st)
        lb == Overlay(got.labels, TypeLabelsOf(s))
        due == DueOf(st, s, t)
        done == {n \in due : n \notin refused /\ (enableDeletion => lb[VKey(n)] \in st.keys)}
    IN
    IF got.err # Nil THEN [st |-> st, err |-> got.err, logged |-> FALSE]
    ELSE [st |-> [st EXCEPT
                    !.keys = IF enableDeletion THEN @ \ {lb[VKey(n)] : n \in done} ELSE @,
                    !.versions = [n \in DOMAIN @ |->
                                    IF n \in done THEN [@[n] EXCEPT !.state = DESTROYED]
                                    ELSE @[n]],
                    !.labels = [k \in DOMAIN @ \ {VKey(n) : n \in done} |-> @[k]]],
          err |-> Nil,
          logged |-> due # done
                     \/ \E n \in VLabels(lb) : ShouldDeactivateOf(st, n, t).err # Nil]

\* RunOnce returning at the first error of a step
ReturnOnError(err, next) == IF err # Nil THEN "return" ELSE next

\* RunOnce logs the error of a step and takes the next step
LogAndContinue(err, next) == next

PassInit ==
    /\ spec \in [interval : 0..MaxInterval, cron : {""}, gracePeriod : 0..MaxGrace]
    /\ enableDeletion \in BOOLEAN
    /\ secretExists = FALSE
    /\ versions = <<>>
    /\ labels = EmptyLabels
    /\ iamKeys = {}
    /\ nextKey = 0
    /\ secrets = EmptyMap
    /\ clock = 0
    /\ pc = "idle"
    /\ now = 0
    /\ lbls = EmptyLabels
    /\ todo = {}
    /\ version = 0
    /\ newId = 0
    /\ newSecret = <<>>
    /\ latestVersion = 0
    /\ shouldRefresh = NoResult
    /\ refreshed = NoResult
    /\ shouldDeactivate = NoDecision
    /\ pre = NoPre
    /\ dcall = NoCall
    /\ revoked = {}
    /\ removed = EmptyMap
    /\ upserted = Nil
    /\ faults = 0
    /\ SyncOff
    /\ AgentOff
    /\ gsm \in [{Specs[i].secret : i \in DOMAIN Specs} -> InitSecrets]
    /\ gsm0 = EmptyMap
    /\ pidx = 0
    /\ pstep = "idle"
    /\ plog = <<>>

\* a range that goes through Specs from the last to the first
CurrentLastFirst == Specs[Len(Specs) + 1 - pidx]

\* the spec RunOnce is at, and its secret
Current == Specs[pidx]
CurrentSecret == gsm[Current.secret]

Logged(step, failed) == [step |-> step, now |-> clock, failed |-> failed]

\* RunOnce starts on the specs of the config
RunOnceBegin ==
    /\ pidx = 0
    /\ pidx' = 1
    /\ pstep' = "UpsertLabels"
    /\ gsm0' = gsm
    /\ plog' = [i \in DOMAIN Specs |-> <<>>]
    /\ UNCHANGED <<conf, clock, faults, singleVars, syncVars, agentVars, gsm>>

RunOnceUpsertLabels ==
    /\ pidx # 0
    /\ pstep = "UpsertLabels"
    /\ \E done \in SUBSET DOMAIN TypeLabelsOf(Current) :
          LET r == UpsertLabelsOf(CurrentSecret, Current, done) IN
          /\ done # DOMAIN TypeLabelsOf(Current) => r.err = Unavailable
          /\ Fault(r.err = Unavailable)
          /\ gsm' = [gsm EXCEPT ![Current.secret] = r.st]
          /\ plog' = [plog EXCEPT ![pidx] = Append(@, Logged("UpsertLabels", r.err # Nil))]
          /\ pstep' = LogAndContinue(r.err, "Refresh")
    /\ UNCHANGED <<conf, clock, singleVars, syncVars, agentVars, gsm0, pidx>>

RunOnceRefresh ==
    /\ pidx # 0
    /\ pstep = "Refresh"
    /\ \E f \in RefreshCalls \cup {"none"} :
          LET r == RefreshOf(CurrentSecret, Current, clock, f) IN
          /\ f # "none" => r.err \in {ProvisionerError, Unavailable}
          /\ Fault(f # "none")
          /\ gsm' = [gsm EXCEPT ![Current.secret] = r.st]
          /\ plog' = [plog EXCEPT ![pidx] = Append(@, Logged("Refresh", r.err # Nil))]
          /\ pstep' = LogAndContinue(r.err, "Deactivate")
    /\ UNCHANGED <<conf, clock, singleVars, syncVars, agentVars, gsm0, pidx>>

\* Deactivate for the spec, then the next spec of the range
RunOnceDeactivate ==
    /\ pidx # 0
    /\ pstep = "Deactivate"
    /\ \E refused \in {{}} \cup {{n} : n \in DueOf(CurrentSecret, Current, clock)} :
          LET r == DeactivateOf(CurrentSecret, Current, clock, refused) IN
          /\ refused # {} => enableDeletion
          /\ Fault(refused # {})
          /\ gsm' = [gsm EXCEPT ![Current.secret] = r.st]
          /\ plog' = [plog EXCEPT
                        ![pidx] = Append(@, Logged("Deactivate", r.err # Nil \/ r.logged))]
          /\ pstep' = LogAndContinue(r.err,
                         IF pidx < Len(Specs) THEN "UpsertLabels" ELSE "return")
          /\ pidx' = IF pstep' = "UpsertLabels" THEN pidx + 1 ELSE pidx
    /\ UNCHANGED <<conf, clock, singleVars, syncVars, agentVars, gsm0>>

\* RunOnce returns
RunOnceEnd ==
    /\ pstep = "return"
    /\ pidx' = 0
    /\ pstep' = "idle"
    /\ gsm0' = EmptyMap
    /\ plog' = <<>>
    /\ UNCHANGED <<conf, clock, faults, singleVars, syncVars, agentVars, gsm>>

\* between two runs of RunOnce time passes
RunOnceSleep ==
    /\ pidx = 0
    /\ clock < MaxTime
    /\ clock' = clock + 1
    /\ UNCHANGED <<conf, faults, singleVars, syncVars, agentVars, passVars>>

PassNext ==
    \/ RunOnceBegin
    \/ RunOnceUpsertLabels
    \/ RunOnceRefresh
    \/ RunOnceDeactivate
    \/ RunOnceEnd
    \/ RunOnceSleep

PassSpec == PassInit /\ [][PassNext]_vars

----------------------------------------------------------------------------
(* Properties *)

RefreshPcs == {"createNew", "upsertSecret", "upsertSecretLabel", "refreshed"}
LoopBodyPcs == {"provisioner", "destroy", "deleteLabel"}

Exists(n) == n \in 1..Len(versions)
Destroyed(n) == Exists(n) /\ versions[n].state = DESTROYED

\* the successor of n exists and t is strictly later than its createTime + gracePeriod
OutOfGrace(n, t) ==
    /\ Exists(n + 1)
    /\ t > versions[n + 1].createTime + spec.gracePeriod

\* C1: Grace-period safety. The rotator revokes and destroys version N only
\* if version N+1 exists and the `now` of that Deactivate call is strictly
\* later than createTime(N+1) + gracePeriod: so while the loop body handles a
\* version, and for every version that has been revoked or is DESTROYED, the
\* successor exists and its createTime + gracePeriod lies in the past.
C1_GracePeriodSafety ==
    /\ pc \in LoopBodyPcs => OutOfGrace(version, now) /\ now <= clock
    /\ \A n \in revoked : OutOfGrace(n, clock)
    /\ \A n \in 1..Len(versions) : Destroyed(n) => OutOfGrace(n, clock)

\* a version was revoked and destroyed although its successor was published
\* later than the refresh interval asked for
C1_Witness ==
    \E n \in revoked :
        /\ Destroyed(n)
        /\ spec.interval # 0
        /\ versions[n + 1].createTime > versions[n].createTime + spec.interval + 1

\* C2: The latest version is always retained. The highest version is never
\* revoked, never DESTROYED and never loses its label through Deactivate, the
\* loop body never handles it, and ShouldDeactivate for it returns false and
\* no error.
C2_LatestRetained ==
    Len(versions) >= 1 =>
        /\ ~Destroyed(Latest)
        /\ Latest \notin revoked
        /\ Latest \notin DOMAIN removed
        /\ pc \in LoopBodyPcs => version # Latest
        /\ shouldDeactivate.version = Latest =>
              ~shouldDeactivate.res /\ shouldDeactivate.err = Nil

\* ShouldDeactivate has just answered for the latest version, whose own
\* createTime + gracePeriod is past, in a pass that destroyed an older one
C2_Witness ==
    /\ pc = "range"
    /\ Len(versions) >= 2
    /\ shouldDeactivate.version = Latest
    /\ now > versions[Latest].createTime + spec.gracePeriod
    /\ \E n \in DOMAIN removed : Destroyed(n)

\* C3: Deactivate's side effects come in the order revocation, destroy, label
\* removal: a label v<N> has been removed only if version N is DESTROYED, and
\* version N is DESTROYED only if the provisioner's Deactivate for N returned
\* success, in the states between the steps too.
C3_SideEffectOrder ==
    /\ \A n \in DOMAIN removed : Destroyed(n)
    /\ \A n \in 1..Len(versions) : Destroyed(n) => n \in revoked
    /\ pc = "destroy" => version \in revoked
    /\ pc = "deleteLabel" => version \in revoked

\* between the destroy and the label removal
C3_Witness ==
    /\ pc = "deleteLabel"
    /\ Destroyed(version)
    /\ VKey(version) \in DOMAIN labels

\* the upstream credential recorded under each removed label v<N> is gone
RemovedAreRevoked == \A n \in DOMAIN removed : removed[n] \notin iamKeys

\* C4 as stated: whatever enableDeletion is, no label v<N> has been removed
\* while the upstream credential recorded under it still lives.
C4_RemovedLabelNeverLive == RemovedAreRevoked

\* C4: Crash safety of deactivation when enableDeletion is true: in every
\* state, also after a stop between two steps of Deactivate or a failed call,
\* no label v<N> has been removed while the upstream credential recorded
\* under it still lives.
C4_RemovedLabelNeverLiveWhenDeleting == enableDeletion => RemovedAreRevoked

\* with enableDeletion, a label has been removed and its key is gone, and
\* the rotator has been stopped between two steps before
C4_Witness ==
    /\ enableDeletion
    /\ removed # <<>>
    /\ faults > 0
    /\ pc = "idle"

\* the v<N> labels Deactivate(now) has to leave; `strict` tells how
\* createTime(N+1) + gracePeriod is compared with now
LabelsToKeep(strict) ==
    {n \in 1..Len(versions) :
        /\ ~Destroyed(n)
        /\ \/ ~Exists(n + 1)
           \/ IF strict
              THEN versions[n + 1].createTime + spec.gracePeriod > now
              ELSE versions[n + 1].createTime + spec.gracePeriod >= now}

\* the labels that are no version labels are those Deactivate found
IdentifyingUntouched ==
    /\ {k \in DOMAIN labels : ~Matched(k)} = {k \in DOMAIN dcall.labels : ~Matched(k)}
    /\ \A k \in DOMAIN dcall.labels : ~Matched(k) => labels[k] = dcall.labels[k]

\* Deactivate has returned, none of its calls failed, and when it was called
\* every version that was not DESTROYED had its label
DeactivateSucceeded ==
    /\ pc = "deactivated"
    /\ ~dcall.failed
    /\ dcall.tracked

C6_ShouldDeactivate ==
    shouldDeactivate.version # 0 =>
        LET n == shouldDeactivate.version IN
        /\ shouldDeactivate.res <=> (Exists(n) /\ OutOfGrace(n, now))
        /\ ~Exists(n) => ~shouldDeactivate.res /\ shouldDeactivate.err # Nil
        /\ (Exists(n) /\ Exists(n + 1) /\ now = versions[n + 1].createTime + spec.gracePeriod)
              => ~shouldDeactivate.res
        /\ (Exists(n) /\ Exists(n + 1) /\ spec.gracePeriod = 0
              /\ now > versions[n + 1].createTime) => shouldDeactivate.res

\* ShouldDeactivate has answered at now = createTime(N+1) + gracePeriod
C6_Witness ==
    /\ shouldDeactivate.version # 0
    /\ Exists(shouldDeactivate.version + 1)
    /\ now = versions[shouldDeactivate.version + 1].createTime + spec.gracePeriod
    /\ spec.gracePeriod > 0

\* ShouldDeactivate has answered for a version that does not exist
C6_WitnessMissing ==
    /\ shouldDeactivate.version # 0
    /\ ~Exists(shouldDeactivate.version)
    /\ shouldDeactivate.err = NotFound

\* ShouldDeactivate has answered true with gracePeriod 0
C6_WitnessNoGrace ==
    /\ shouldDeactivate.res
    /\ spec.gracePeriod = 0
    /\ now = versions[shouldDeactivate.version + 1].createTime + 1

\* Refresh has returned true
RefreshSucceeded == pc = "refreshed" /\ refreshed.res

\* the version Refresh published, when it published one
NewVersion == Len(pre.versions) + 1

\* C7: A successful Refresh that decides to refresh appends exactly one new
\* version, whose bytes are the payload of its one CreateNew call, and adds
\* the label v<newVersion> with the externalId of the same call; the
\* identifying labels and the other v<N> labels keep their values; it returns
\* true (it returns true exactly when it decided to refresh and no call failed).
C7_RefreshPublishes ==
    /\ RefreshSucceeded =>
          /\ shouldRefresh.res
          /\ Len(versions) = NewVersion
          /\ SubSeq(versions, 1, Len(pre.versions)) = pre.versions
          /\ nextKey = pre.nextKey + 1
          /\ pre.nextKey \in iamKeys
          /\ versions[NewVersion].data = PrivateKeyData(pre.nextKey)
          /\ versions[NewVersion].state = ENABLED_
          /\ DOMAIN labels = DOMAIN pre.labels \cup {VKey(NewVersion)}
          /\ labels[VKey(NewVersion)] = pre.nextKey
          /\ \A k \in DOMAIN pre.labels \ {VKey(NewVersion)} : labels[k] = pre.labels[k]
    /\ (pc = "refreshed" /\ shouldRefresh.res /\ refreshed.err = Nil) => refreshed.res

\* a Refresh returned true on a secret that had a labelled older version
C7_Witness ==
    /\ RefreshSucceeded
    /\ Len(pre.versions) >= 1
    /\ VKey(1) \in DOMAIN pre.labels
    /\ <<"project">> \in DOMAIN pre.labels

\* the conditions of C8 on the Refresh that is running or has just returned
IntervalSpecWithVersion ==
    /\ pc \in RefreshPcs
    /\ spec.interval # 0
    /\ Len(pre.versions) >= 1

\* createTime(latest) + interval when Refresh was called
Due == pre.versions[Len(pre.versions)].createTime + spec.interval

\* C8: For an interval-strategy spec whose version 1 exists, Refresh(spec,
\* now) with now not later than createTime(latest) + interval returns false
\* without error, does not call the provisioner and leaves versions, version
\* states and labels unchanged; with now strictly later, ShouldRefresh
\* returns true.
C8_WithinInterval ==
    IntervalSpecWithVersion =>
        /\ now <= Due =>
              /\ pc = "refreshed"
              /\ refreshed = [res |-> FALSE, err |-> Nil]
              /\ ~shouldRefresh.res
              /\ versions = pre.versions
              /\ labels = pre.labels
              /\ nextKey = pre.nextKey
        /\ now > Due => shouldRefresh = [res |-> TRUE, err |-> Nil]

\* Refresh returned false at now = createTime(latest) + interval
C8_Witness ==
    /\ IntervalSpecWithVersion
    /\ pc = "refreshed"
    /\ now = Due
    /\ ~refreshed.res

\* C9: Cron-driven rotation. For a spec with a cron refresh strategy whose
\* cron entry has fired and has not been polled, the ShouldRefresh of the
\* next rotation pass returns true.
C9_CronFiredRefreshes ==
    [][(/\ pc = "refresh"
        /\ pc' # "refresh"
        /\ spec.cron # ""
        /\ SpecName \in DOMAIN secrets
        /\ secrets[SpecName].triggered)
       => shouldRefresh'.res]_vars

\* C10: Bootstrap. When the secret exists but version 1 does not,
\* ShouldRefresh returns true and no error whatever the refresh strategy,
\* interval and now are, and a Refresh without a failed call then publishes
\* version 1 and records label v1 = the externalId of the minted credential.
C10_Bootstrap ==
    (pc \in RefreshPcs /\ secretExists /\ pre.versions = <<>>) =>
        /\ shouldRefresh = [res |-> TRUE, err |-> Nil]
        /\ (pc = "refreshed" /\ refreshed.err = Nil) =>
              /\ refreshed.res
              /\ Len(versions) = 1
              /\ versions[1].data = PrivateKeyData(pre.nextKey)
              /\ VKey(1) \in DOMAIN labels
              /\ labels[VKey(1)] = pre.nextKey
              /\ pre.nextKey \in iamKeys

\* version 1 was published for a spec that has no interval, after the clock
\* had moved on
C10_Witness ==
    /\ RefreshSucceeded
    /\ pre.versions = <<>>
    /\ spec.interval = 0
    /\ now > 0
    /\ Len(versions) = 1

\* the pass stands in Refresh after ShouldRefresh, or has left Refresh
AfterUpsertLabels == pc # "idle"

C12_CreateNewErrorAborts ==
    (pc = "refreshed" /\ refreshed.err = ProvisionerError) =>
        /\ ~refreshed.res
        /\ versions = pre.versions
        /\ labels = pre.labels
        /\ nextKey = pre.nextKey

\* CreateNew failed in a Refresh of a secret that already had a labelled version
C12_Witness ==
    /\ pc = "refreshed"
    /\ refreshed.err = ProvisionerError
    /\ Len(versions) >= 1
    /\ VKey(1) \in DOMAIN labels

DeactivatePcs == {"range", "provisioner", "destroy", "deleteLabel", "deactivated"}

\* C13: if the provisioner's Deactivate fails for version N, the rotator
\* leaves version N as it was: its state is the state it had when Deactivate
\* was called and its label v<N> is there with its value; the loop goes on
\* with the other labels, and when Deactivate returns every label has had its
\* turn.
C13_FailedRevocationKeepsVersion ==
    pc \in DeactivatePcs =>
        /\ \A n \in dcall.refused :
              /\ (pc \in LoopBodyPcs => version # n)
              /\ versions[n].state = dcall.versions[n].state
              /\ VKey(n) \in DOMAIN labels
              /\ labels[VKey(n)] = dcall.labels[VKey(n)]
        /\ (pc = "deactivated" /\ dcall.err = Nil) => todo = {}

\* the provisioner failed for one version and another version was destroyed
\* and lost its label in the same Deactivate
C13_Witness ==
    /\ pc = "deactivated"
    /\ \E n \in dcall.refused : ~Destroyed(n)
    /\ \E m \in 1..Len(versions) :
          /\ Destroyed(m)
          /\ dcall.versions[m].state = ENABLED_
          /\ VKey(m) \notin DOMAIN labels

\* the labels v<N> Deactivate found whose version N does not exist
Orphans == {k \in DOMAIN dcall.labels : Matched(k) /\ ~Exists(Atoi(k))}

\* C14: when the labels hold v<N> and version N does not exist, Deactivate
\* returns nil, the provisioner is never called for N, the label v<N> stays
\* with its value, every other label has its turn, and (no call failing) every
\* other labelled version that is out of grace is destroyed and loses its
\* label.
C14_OrphanLabel ==
    /\ pc \in LoopBodyPcs => Exists(version)
    /\ (pc \in DeactivatePcs /\ Orphans # {}) =>
          /\ dcall.err = Nil
          /\ \A k \in Orphans : k \in DOMAIN labels /\ labels[k] = dcall.labels[k]
          /\ pc = "deactivated" =>
                /\ todo = {}
                /\ faults = 0 =>
                      \A n \in VLabels(dcall.labels) :
                          (Exists(n) /\ OutOfGrace(n, now)) =>
                              Destroyed(n) /\ VKey(n) \notin DOMAIN labels

\* Deactivate has returned; it found an orphan label, logged the error of
\* ShouldDeactivate for it, and destroyed another version
C14_Witness ==
    /\ pc = "deactivated"
    /\ Orphans # {}
    /\ dcall.failed
    /\ faults = 0
    /\ \E n \in VLabels(dcall.labels) : Destroyed(n) /\ dcall.versions[n].state = ENABLED_

\* C16: after a client error in the upsert-labels step of a spec, RunOnce
\* skips the spec for the rest of the pass: it does not come to stand behind
\* a provisioner call or a store write for it.
C16_SkippedAfterClientError ==
    (pc # "idle" /\ upserted # Nil) =>
        pc \notin {"upsertSecret", "upsertSecretLabel", "destroy", "deleteLabel"}

\* the spec of the last Sync
LastSpec == SyncSpecs[last.idx]

\* C17: Sync is idempotent. Whenever the source bytes equal the bytes of the
\* destination key, Sync returns updated = false and calls no cluster write;
\* and a second Sync of the same spec directly after a Sync that returned no
\* error, the stores unchanged in between, returns false and no error, calls
\* no cluster write and leaves the cluster as it is.
C17_SyncIdempotent ==
    last.idx # 0 =>
        /\ (/\ last.srcErr = Nil
            /\ LastSpec.namespace \in DOMAIN last.before
            /\ BytesEqual(last.src, last.dest))
              => ~last.updated /\ ~last.wrote /\ last.err = Nil /\ K8sSecret = last.before
        /\ last.err = Nil =>
              \A f \in BOOLEAN :
                  LET again == Sync(LastSpec, SecretManagerSecret, K8sSecret, f) IN
                  /\ ~again.updated
                  /\ ~again.wrote
                  /\ again.err = Nil
                  /\ again.cluster = K8sSecret

\* a Sync has just replaced the bytes of a key that was there
C17_Witness ==
    /\ last.idx # 0
    /\ last.updated
    /\ ~last.dest.nil
    /\ last.dest.b # ""

\* the cluster's keys with their bytes; its secrets
Entries(k8s) ==
    {<<e[1], e[2], e[3], k8s[e[1]][e[2]][e[3]]>> : e \in
        {x \in (DOMAIN k8s) \X {"secret-a", "secret-b"} \X {"key-a", "key-b"} :
            x[2] \in DOMAIN k8s[x[1]] /\ x[3] \in DOMAIN k8s[x[1]][x[2]]}}

SecretsOf(k8s) ==
    {e \in (DOMAIN k8s) \X {"secret-a", "secret-b"} : e[2] \in DOMAIN k8s[e[1]]}

\* the entry is the destination key of the last Sync
AtDestination(e) ==
    e[1] = LastSpec.namespace /\ e[2] = LastSpec.secret /\ e[3] = LastSpec.key

\* the last Sync wrote the source bytes to its destination key and nothing else
WroteThrough ==
    /\ last.updated
    /\ last.err = Nil
    /\ GetKubernetesSecretValue(K8sSecret, LastSpec.namespace, LastSpec.secret,
                                LastSpec.key) = [val |-> last.src, err |-> Nil]
    /\ DOMAIN K8sSecret = DOMAIN last.before
    /\ SecretsOf(K8sSecret) =
          SecretsOf(last.before) \cup {<<LastSpec.namespace, LastSpec.secret>>}
    /\ {e \in Entries(K8sSecret) : ~AtDestination(e)} =
          {e \in Entries(last.before) : ~AtDestination(e)}

\* the last Sync found the namespace and the source, and the cluster took its write
CouldWrite ==
    /\ last.idx # 0
    /\ last.srcErr = Nil
    /\ LastSpec.namespace \in DOMAIN last.before
    /\ ~last.fault

\* C18 as stated: when the namespace exists and the source bytes differ from
\* the destination key's bytes, an absent secret or key differing from every
\* source, Sync sets exactly that key to the source bytes, creating the secret
\* if it is missing, and returns true; every other key and secret keeps its
\* value.
C18_WriteThroughWhenAbsent ==
    (CouldWrite /\ (last.dest.nil \/ last.src.b # last.dest.b)) => WroteThrough

\* C18: when the namespace exists and the source bytes differ from the
\* destination key's bytes, an absent secret or key counting as no bytes, Sync
\* sets exactly that key to the source bytes, creating the secret if it is
\* missing, and returns true; a read of the key then yields the source bytes,
\* and every other key and secret keeps its value.
C18_WriteThrough ==
    (CouldWrite /\ ~BytesEqual(last.src, last.dest)) => WroteThrough

\* Sync has added a missing key to a secret that held another key
C18_Witness ==
    /\ last.idx # 0
    /\ last.updated
    /\ last.dest.nil
    /\ \E e \in Entries(last.before) : e[1] = LastSpec.namespace /\ e[2] = LastSpec.secret

\* C19: Sync for a spec whose destination namespace does not exist returns an
\* error and updated = false, calls no cluster write and leaves the cluster
\* as it is: the namespace is not created, nor a secret in it.
C19_MissingNamespace ==
    (last.idx # 0 /\ LastSpec.namespace \notin DOMAIN last.before) =>
        /\ last.err # Nil
        /\ ~last.updated
        /\ ~last.wrote
        /\ K8sSecret = last.before
        /\ LastSpec.namespace \notin DOMAIN K8sSecret

\* Sync has returned the namespace's NotFound for a spec whose source is there
C19_Witness ==
    /\ last.idx # 0
    /\ LastSpec.namespace \notin DOMAIN last.before
    /\ last.srcErr = Nil
    /\ last.err = NotFound

\* C20: SyncAll hands every spec of the config to Sync, in order, whatever
\* errors Sync returns; a Sync that returns an error leaves the cluster as it
\* is, and the cluster is at every turn what the same pass would have made it
\* with the failing specs taken out of the config.
C20_SyncAllContinues ==
    /\ si # 0 =>
          /\ Len(synced) = si - 1
          /\ \A i \in 1..Len(synced) : synced[i].idx = i
          /\ K8sSecret = without
    /\ (last.idx # 0 /\ last.err # Nil) => K8sSecret = last.before

\* SyncAll is through the config: the second spec failed, the third was synced
C20_Witness ==
    /\ si = Len(SyncSpecs) + 1
    /\ synced[2].err # Nil
    /\ last.idx = Len(SyncSpecs)
    /\ last.updated

\* the steps RunOnce has taken for the spec at i
StepsOf(i) == [k \in DOMAIN plog[i] |-> plog[i][k].step]

AllSteps == <<"UpsertLabels", "Refresh", "Deactivate">>

\* a step of the spec at i returned or logged an error
Failing(i) == \E k \in DOMAIN plog[i] : plog[i][k].failed

\* the secret of the spec at i after a pass in which no call fails, taken at
\* the times of the running pass on the secret as it was when the pass started
ExpectedSecret(i) ==
    LET s == Specs[i]
        upserted1 == UpsertLabelsOf(gsm0[s.secret], s, DOMAIN TypeLabelsOf(s)).st
        refreshed1 == RefreshOf(upserted1, s, plog[i][2].now, "none").st
    IN DeactivateOf(refreshed1, s, plog[i][3].now, {}).st

----------------------------------------------------------------------------
(* The sync controller in continuous mode: Start calls SyncAll at every      *)
(* ResyncPeriod, and a SyncAll that was started runs to its end.             *)

SyncAllStep == SyncAllBegin \/ SyncAllSync \/ SyncAllReturn

\* every client call succeeds
SyncLiveInit ==
    /\ RotatorOff
    /\ PassOff
    /\ AgentOff
    /\ faults = MaxFaults
    /\ SecretManagerSecret \in
          {[id \in S |-> Bytes("token")] : S \in SUBSET Sources}
    /\ K8sSecret \in InitClusters
    /\ si = 0
    /\ synced = <<>>
    /\ last = NoSync
    /\ without = EmptyMap
    /\ unsynced = {}

SyncLive ==
    /\ SyncLiveInit
    /\ [][SyncNext]_vars
    /\ WF_vars(SyncAllBegin)
    /\ WF_vars(SyncAllSync)
    /\ WF_vars(SyncAllReturn)

\* what a read of the spec's destination key yields
DestinationOf(s) == GetKubernetesSecretValue(K8sSecret, s.namespace, s.secret, s.key)

\* the source secret and the destination namespace of the spec are there
Syncable(s) ==
    /\ GetSecretManagerSecretValue(SecretManagerSecret, s.source).err = Nil
    /\ ValidateKubernetesNamespace(K8sSecret, s.namespace) = Nil

\* the destination key holds the source bytes
HoldsSource(s) == DestinationOf(s) = [val |-> SecretManagerSecret[s.source], err |-> Nil]

\* a read of the destination key yields bytes equal to the source's, a key
\* that is not there yielding none
EqualsSource(s) ==
    /\ DestinationOf(s).err = Nil
    /\ BytesEqual(DestinationOf(s).val, SecretManagerSecret[s.source])

\* the Sync that has just returned is the first of its spec after one that failed
SyncedAfterFailure == last.idx # 0 /\ last.again /\ last.err = Nil

\* C21 as stated: the Sync without error that follows a failed one leaves the
\* source bytes in the destination key; and once the stores are changed by
\* SyncAll alone, every spec whose source and namespace are there comes to
\* hold the source bytes in its destination key for good.
C21_SyncConvergesToSource ==
    /\ [](SyncedAfterFailure => HoldsSource(LastSpec))
    /\ \A i \in DOMAIN SyncSpecs :
          <>[][SyncAllStep]_vars =>
              <>[](Syncable(SyncSpecs[i]) => HoldsSource(SyncSpecs[i]))

\* C21: no sync failure is sticky, and sync converges. The Sync without error
\* that follows a failed Sync of the same spec leaves the destination key
\* reading as the source bytes (a key that is not there reads as no bytes, so
\* nothing is written for an empty source); and once the stores are changed
\* by SyncAll alone, with passes kept running, every spec whose source and
\* namespace are there comes to read as its source bytes for good.
C21_SyncConverges ==
    /\ [](SyncedAfterFailure => EqualsSource(LastSpec))
    /\ \A i \in DOMAIN SyncSpecs :
          <>[][SyncAllStep]_vars =>
              <>[](Syncable(SyncSpecs[i]) => EqualsSource(SyncSpecs[i]))

\* the second spec, whose Sync had failed, has been written in a later pass
C21_Witness ==
    /\ SyncedAfterFailure
    /\ last.idx = 2
    /\ last.updated
    /\ HoldsSource(LastSpec)

----------------------------------------------------------------------------
(* The cron scheduler of the config agent: Cron.secrets, the entries of the  *)
(* cronAgent, SyncConfig, QueuedSecrets and the callbacks of the entries.    *)
(* A cron string is the tuple of its fields, the empty string the empty      *)
(* tuple. Every method of Cron holds Cron.lock from its first statement to   *)
(* its return, and so does the callback: each is one step.                    *)

MaxSpecs == 2
MaxEntries == 3

NoCronStr == <<>>
Mondays == <<"0", "0", "*", "*", "1">>
MondaysAt8 == <<"0", "8", "*", "*", "1">>
FourFields == <<"0", "0", "*", "*">>

CronStrs == {NoCronStr, Mondays, MondaysAt8, FourFields}

\* the error of cronAgent.AddFunc("TZ=UTC " + cron, ...): the cron string is
\* parsed into 5 or 6 fields
ParseCron(cron) == IF Len(cron) \in {5, 6} THEN Nil ELSE "parse"

\* RotatedSecretSpec, as the scheduler reads it: Project, Secret, Refresh.Cron.
\* secret-1 comes with every cron string, secret-2 with none or the first.
RotationSpecs ==
    [project : {"project-1"}, secret : {"secret-1"}, cron : CronStrs]
        \cup [project : {"project-1"}, secret : {"secret-2"}, cron : {NoCronStr, Mondays}]

\* RotatedSecretSpec.String()
String(s) == "SecretManager:/projects/" \o s.project \o "/secrets/" \o s.secret

\* RotatedSecretConfig.Specs
Configs == UNION {[1..n -> RotationSpecs] : n \in 0..MaxSpecs}

SecretNames == {String(s) : s \in RotationSpecs}

\* the Cron: its secrets and the next EntryID of its cronAgent
CronOf(m, n) == [secrets |-> m, next |-> n, err |-> Nil]

removeSecret(c, name) ==
    IF name \notin DOMAIN c.secrets
    THEN [c EXCEPT !.err = "not added"]
    ELSE [c EXCEPT !.secrets = Delete(@, name)]

addSecret(c, name, cron) ==
    IF ParseCron(cron) # Nil
    THEN [c EXCEPT !.err = ParseCron(cron)]
    ELSE [c EXCEPT !.secrets = Upsert(@, name, [entryID |-> c.next, cronStr |-> cron,
                                                triggered |-> FALSE]),
                   !.next = @ + 1]

\* addPeriodic putting a new entry in place of one whose cron string is the spec's
addPeriodicAlwaysReplaces(c, s) ==
    LET name == String(s)
        cleared == IF name \in DOMAIN c.secrets THEN removeSecret(c, name) ELSE c
    IN
    IF cleared.err # Nil THEN cleared
    ELSE IF s.cron = NoCronStr THEN cleared
    ELSE addSecret(cleared, name, s.cron)

\* addPeriodic clearing the triggered flag of the entry it keeps
addPeriodicResetsTrigger(c, s) ==
    LET name == String(s)
        cleared == IF name \in DOMAIN c.secrets THEN removeSecret(c, name) ELSE c
    IN
    IF name \in DOMAIN c.secrets /\ c.secrets[name].cronStr = s.cron
    THEN [c EXCEPT !.secrets[name].triggered = FALSE]
    ELSE IF cleared.err # Nil THEN cleared
    ELSE IF s.cron = NoCronStr THEN cleared
    ELSE addSecret(cleared, name, s.cron)

addPeriodic(c, s) ==
    LET name == String(s)
        cleared == IF name \in DOMAIN c.secrets THEN removeSecret(c, name) ELSE c
    IN
    IF name \in DOMAIN c.secrets /\ c.secrets[name].cronStr = s.cron
    THEN c
    ELSE IF cleared.err # Nil THEN cleared
    ELSE IF s.cron = NoCronStr THEN cleared
    ELSE addSecret(cleared, name, s.cron)

\* for _, spec := range cfg.Specs { addPeriodic(spec) }, from the spec at i
\* on, returning at the first error
RECURSIVE AddPeriodics(_, _, _)
AddPeriodics(c, cfg, i) ==
    IF i > Len(cfg) THEN c
    ELSE LET r == addPeriodic(c, cfg[i]) IN
         IF r.err # Nil THEN r ELSE AddPeriodics(r, cfg, i + 1)

\* periodicNames
PeriodicNames(cfg) == {String(cfg[i]) : i \in DOMAIN cfg}

\* SyncConfig without the removal of the entries of specs that are gone
SyncConfigKeepsGone(c, cfg) == AddPeriodics(c, cfg, 1)

\* Cron.SyncConfig(cfg)
SyncConfig(c, cfg) ==
    LET added == AddPeriodics(c, cfg, 1) IN
    IF added.err # Nil THEN added
    ELSE [added EXCEPT !.secrets =
             [name \in DOMAIN added.secrets \cap PeriodicNames(cfg) |-> added.secrets[name]]]

\* QueuedSecrets leaving the flags as they are
QueuedSecretsKeepsFlags(m) ==
    [res |-> {k \in DOMAIN m : m[k].triggered}, secrets |-> m]

\* Cron.QueuedSecrets()
QueuedSecrets(m) ==
    [res |-> {k \in DOMAIN m : m[k].triggered},
     secrets |-> [k \in DOMAIN m |-> [m[k] EXCEPT !.triggered = FALSE]]]

\* the specs of cfg that have a cron string, by name
CronScheduled(cfg) == {String(cfg[i]) : i \in {j \in DOMAIN cfg : cfg[j].cron # NoCronStr}}

\* what the cron scheduler and the callbacks of its entries leave alone
callbackFrame ==
    <<conf, store, iamKeys, nextKey, clock, pc, locals, ghosts, upserted, faults,
      syncVars, passVars, config, apc, reload, ranging, ri, visited, validateVars,
      startVars>>

\* what the methods of Cron leave alone
cronFrame == <<callbackFrame, callbackVars>>

\* NewCron()
CronInit ==
    /\ StartOff
    /\ CallbackOff
    /\ RotatorOff
    /\ SyncOff
    /\ PassOff
    /\ faults = 0
    /\ config = <<>>
    /\ apc = "off"
    /\ reload = [op |-> "none", err |-> Nil, scheduled |-> TRUE]
    /\ ranging = <<>>
    /\ ri = 0
    /\ visited = <<>>
    /\ validating = <<>>
    /\ validated = "none"
    /\ nextEntry = 1
    /\ cronlog = [op |-> "none"]
    /\ fired = EmptyMap

\* the names whose entry in m is not their entry in n
Replaced(m, n) ==
    {name \in DOMAIN m : name \notin DOMAIN n \/ n[name].entryID # m[name].entryID}

\* the names with an entry in m whose specs in cfg all have the cron string
\* the entry records
SameCron(cfg, m) ==
    {name \in DOMAIN m \cap PeriodicNames(cfg) :
        \A i \in DOMAIN cfg : String(cfg[i]) = name => cfg[i].cron = m[name].cronStr}

CronSyncConfig ==
    /\ \E cfg \in Configs :
          LET r == SyncConfig(CronOf(secrets, nextEntry), cfg) IN
          /\ r.next <= MaxEntries + 1
          /\ secrets' = r.secrets
          /\ nextEntry' = r.next
          /\ cronlog' = [op |-> "SyncConfig", err |-> r.err, had |-> DOMAIN secrets,
                         replaced |-> Replaced(secrets, r.secrets)]
          /\ fired' = [name \in DOMAIN fired |->
                          IF name \notin CronScheduled(cfg) \/ fired[name] = "unscheduled"
                          THEN "unscheduled"
                          ELSE IF name \notin SameCron(cfg, secrets) THEN "rescheduled"
                          ELSE fired[name]]
    /\ UNCHANGED cronFrame

\* the func addSecret hands to cronAgent.AddFunc: the entry of `name` fires
addSecretFunc(name) ==
    /\ name \in DOMAIN secrets
    /\ secrets' = [secrets EXCEPT ![name].triggered = TRUE]
    /\ fired' = Upsert(fired, name, "scheduled")
    /\ cronlog' = [op |-> "func", name |-> name]
    /\ UNCHANGED <<cronFrame, nextEntry>>

CronQueuedSecrets ==
    /\ secrets' = QueuedSecrets(secrets).secrets
    /\ cronlog' = [op |-> "QueuedSecrets", res |-> QueuedSecrets(secrets).res,
                   fired |-> DOMAIN fired, had |-> DOMAIN secrets]
    /\ fired' = EmptyMap
    /\ UNCHANGED <<cronFrame, nextEntry>>

CronNext ==
    \/ CronSyncConfig
    \/ \E name \in SecretNames : addSecretFunc(name)
    \/ CronQueuedSecrets

CronSpec == CronInit /\ [][CronNext]_vars

----------------------------------------------------------------------------
(* Properties of the cron scheduler *)

\* the specs of cfg have different identifiers
Distinct(cfg) == \A i, j \in DOMAIN cfg : String(cfg[i]) = String(cfg[j]) => i = j

\* what SyncConfig(cfg) makes of the scheduler as it is
After(cfg) == SyncConfig(CronOf(secrets, nextEntry), cfg)

\* the EntryIDs of the entries
EntryIDs(m) == {m[name].entryID : name \in DOMAIN m}

\* C22: after a successful SyncConfig(cfg), whatever the scheduler held
\* before, for a cfg whose specs have distinct identifiers: the names with an
\* entry are exactly the names of the specs of cfg that have a cron string,
\* each entry recording the cron string of its spec. Specs without a cron
\* string have no entry, whether they had one or not, and the entries of
\* names that are not in cfg are gone.
C22_SyncConfigSchedules ==
    \A cfg \in Configs :
        LET after == After(cfg) IN
        (Distinct(cfg) /\ after.err = Nil) =>
            /\ DOMAIN after.secrets = CronScheduled(cfg)
            /\ \A i \in DOMAIN cfg :
                  IF cfg[i].cron = NoCronStr
                  THEN String(cfg[i]) \notin DOMAIN after.secrets
                  ELSE after.secrets[String(cfg[i])].cronStr = cfg[i].cron
            /\ \A name \in DOMAIN secrets \ PeriodicNames(cfg) :
                  name \notin DOMAIN after.secrets

\* a successful SyncConfig has dropped the one entry there was and has added
\* an entry for the other name
C22_Witness ==
    /\ cronlog.op = "SyncConfig"
    /\ cronlog.err = Nil
    /\ cronlog.had = {String([project |-> "project-1", secret |-> "secret-1"])}
    /\ DOMAIN secrets = {String([project |-> "project-1", secret |-> "secret-2"])}

\* C23: SyncConfig(cfg), for a cfg whose specs have distinct identifiers,
\* leaves the entry of a spec as it is (EntryID, cron string, triggered flag)
\* when the spec's cron string is the recorded one; and when it returns no
\* error and the spec has another cron string, the name has an entry with
\* an EntryID no entry had before, the spec's cron string and no trigger.
C23_SyncConfigFrame ==
    \A cfg \in Configs :
        LET after == After(cfg) IN
        Distinct(cfg) =>
            \A i \in DOMAIN cfg :
                LET name == String(cfg[i]) IN
                name \in DOMAIN secrets =>
                    /\ cfg[i].cron = secrets[name].cronStr =>
                          /\ name \in DOMAIN after.secrets
                          /\ after.secrets[name] = secrets[name]
                    /\ (/\ after.err = Nil
                        /\ cfg[i].cron \notin {secrets[name].cronStr, NoCronStr}) =>
                          /\ name \in DOMAIN after.secrets
                          /\ after.secrets[name] =
                                [entryID |-> after.secrets[name].entryID,
                                 cronStr |-> cfg[i].cron, triggered |-> FALSE]
                          /\ after.secrets[name].entryID \notin EntryIDs(secrets)

\* C23 as stated, for any SyncConfig(cfg), failed ones included: a spec with
\* a cron string other than the recorded one has an entry with an EntryID no
\* entry had before.
C23_SyncConfigAlwaysReplaces ==
    \A cfg \in Configs :
        LET after == After(cfg) IN
        Distinct(cfg) =>
            \A i \in DOMAIN cfg :
                LET name == String(cfg[i]) IN
                (/\ name \in DOMAIN secrets
                 /\ cfg[i].cron \notin {secrets[name].cronStr, NoCronStr}) =>
                    /\ name \in DOMAIN after.secrets
                    /\ after.secrets[name].entryID \notin EntryIDs(secrets)

\* a successful SyncConfig has replaced one of two entries and kept the
\* other, which has fired
C23_Witness ==
    /\ cronlog.op = "SyncConfig"
    /\ cronlog.err = Nil
    /\ Cardinality(cronlog.replaced) = 1
    /\ Cardinality(DOMAIN secrets) = 2
    /\ \E name \in DOMAIN secrets \ cronlog.replaced : secrets[name].triggered

C25_TriggerKeptWhileScheduled ==
    \A name \in DOMAIN fired :
        fired[name] # "unscheduled" => name \in DOMAIN secrets /\ secrets[name].triggered

\* C25: the triggered flag is cleared by QueuedSecrets alone, as long as the
\* cron string of the spec stays what it is. When the entry of a name has
\* fired since the last QueuedSecrets, and every SyncConfig since had specs
\* for the name, each with the cron string the entry records, then the name
\* has an entry and its triggered flag is set.
C25_TriggerKept ==
    \A name \in DOMAIN fired :
        fired[name] = "scheduled" => name \in DOMAIN secrets /\ secrets[name].triggered

\* a trigger has outlasted a successful SyncConfig that replaced another entry
C25_Witness ==
    /\ cronlog.op = "SyncConfig"
    /\ cronlog.err = Nil
    /\ cronlog.replaced # {}
    /\ \E name \in DOMAIN fired : fired[name] = "scheduled" /\ secrets[name].triggered

----------------------------------------------------------------------------
(* The config agent: NewAgent, WatchConfig and the watcher's reloads *)

\* the config file as LoadFrom finds it: readable yaml with these Specs, or not
Files == [ok : {TRUE}, specs : Configs] \cup {[ok |-> FALSE, specs |-> <<>>]}

\* RotatedSecretConfig.LoadFrom
LoadFrom(file) ==
    IF file.ok THEN [specs |-> file.specs, err |-> Nil]
    ELSE [specs |-> <<>>, err |-> "load"]

\* RotatedSecretConfig.Validate, of the package the agent belongs to
Validate(specs) == IF Len(specs) = 0 THEN "empty" ELSE Nil

\* updateFunc that publishes the config and leaves the scheduler alone
updateFuncSkipsSync(file, cfg, c) ==
    LET loaded == LoadFrom(file) IN
    IF loaded.err # Nil THEN [config |-> cfg, cron |-> c, err |-> loaded.err, set |-> FALSE]
    ELSE IF Validate(loaded.specs) # Nil
    THEN [config |-> cfg, cron |-> c, err |-> Validate(loaded.specs), set |-> FALSE]
    ELSE [config |-> loaded.specs, cron |-> c, err |-> Nil, set |-> TRUE]

\* updateFunc of WatchConfig, on the published config cfg and the scheduler c:
\* LoadFrom, Validate, a.Set(newConfig), a.cron.SyncConfig(a.Config())
updateFunc(file, cfg, c) ==
    LET loaded == LoadFrom(file) IN
    IF loaded.err # Nil THEN [config |-> cfg, cron |-> c, err |-> loaded.err, set |-> FALSE]
    ELSE IF Validate(loaded.specs) # Nil
    THEN [config |-> cfg, cron |-> c, err |-> Validate(loaded.specs), set |-> FALSE]
    ELSE LET r == SyncConfig(c, loaded.specs) IN
         [config |-> loaded.specs, cron |-> r, err |-> r.err, set |-> TRUE]

\* what the agent leaves alone
agentFrame ==
    <<conf, store, iamKeys, nextKey, clock, pc, locals, ghosts, upserted, faults,
      syncVars, passVars, ranging, ri, visited, validateVars, startVars, callbackVars, cronlog, fired>>

\* NewAgent()
AgentInit ==
    /\ StartOff
    /\ CallbackOff
    /\ RotatorOff
    /\ SyncOff
    /\ PassOff
    /\ faults = 0
    /\ config = <<>>
    /\ apc = "new"
    /\ reload = [op |-> "none", err |-> Nil, scheduled |-> TRUE]
    /\ ranging = <<>>
    /\ ri = 0
    /\ visited = <<>>
    /\ validating = <<>>
    /\ validated = "none"
    /\ nextEntry = 1
    /\ cronlog = [op |-> "none"]
    /\ fired = EmptyMap

\* one run of updateFunc, on the file as it is then
Update(op) ==
    \E file \in Files :
        LET r == updateFunc(file, config, CronOf(secrets, nextEntry)) IN
        /\ r.cron.next <= MaxEntries + 1
        /\ config' = r.config
        /\ secrets' = r.cron.secrets
        /\ nextEntry' = r.cron.next
        /\ reload' = [op |-> op, err |-> r.err,
                      scheduled |-> IF r.set THEN r.err = Nil ELSE reload.scheduled]

\* WatchConfig: the first updateFunc; its error is returned, else the watcher
\* is made and returned
WatchConfig ==
    /\ apc = "new"
    /\ Update("WatchConfig")
    /\ apc' = IF reload'.err # Nil THEN "returned error" ELSE "watching"
    /\ UNCHANGED agentFrame

\* the watcher sees the mounted file change and calls updateFunc; its error
\* goes to errFunc, which logs it
Watcher ==
    /\ apc = "watching"
    /\ Update("watcher")
    /\ apc' = apc
    /\ UNCHANGED agentFrame

AgentNext ==
    \/ WatchConfig
    \/ Watcher

AgentSpec == AgentInit /\ [][AgentNext]_vars

----------------------------------------------------------------------------
(* Properties of the config agent *)

\* C26: a run of updateFunc that ends with an error, whatever step failed
\* (load, validation or cron scheduling), leaves the published config what
\* it was, and a failure of the first run makes WatchConfig return the error.
C26_FailedReloadKeepsConfig ==
    [][/\ reload'.err # Nil => config' = config
       /\ (apc = "new" /\ reload'.err # Nil) => apc' = "returned error"]_vars

\* the entries of the scheduler are those of the cron-strategy specs of cfg,
\* with their cron strings
Tracks(m, cfg) ==
    /\ DOMAIN m = CronScheduled(cfg)
    /\ \A i \in DOMAIN cfg :
          cfg[i].cron # NoCronStr => m[String(cfg[i])].cronStr = cfg[i].cron

----------------------------------------------------------------------------
(* A pass over the published config (RunOnce, SyncAll) while the agent
   publishes new ones *)

\* the configs Set is called with: the loaded ones that Validate accepted,
\* here those of interval-strategy specs
Published == {cfg \in Configs : Validate(cfg) = Nil /\ CronScheduled(cfg) = {}}

\* a loop over the index that reads a.Config().Specs[i] in every turn
RangeElementOfConfig(specs, current, i) ==
    IF i \in DOMAIN current THEN current[i] ELSE specs[i]

\* `for _, spec := range Agent.Config().Specs`: the range expression is
\* evaluated once, and turn i reads element i of the slice it gave; `current`
\* is the Specs of the config published by then
RangeElement(specs, current, i) == specs[i]

\* what a pass and Set leave alone
snapshotFrame ==
    <<conf, store, iamKeys, nextKey, clock, pc, locals, ghosts, upserted, faults,
      syncVars, passVars, apc, reload, secrets, validateVars, startVars, callbackVars, nextEntry,
      cronlog, fired>>

\* NewAgent(), no pass running
SnapshotInit ==
    /\ StartOff
    /\ CallbackOff
    /\ RotatorOff
    /\ SyncOff
    /\ PassOff
    /\ faults = 0
    /\ config = <<>>
    /\ apc = "watching"
    /\ reload = [op |-> "none", err |-> Nil, scheduled |-> TRUE]
    /\ ranging = <<>>
    /\ ri = 0
    /\ visited = <<>>
    /\ validating = <<>>
    /\ validated = "none"
    /\ nextEntry = 1
    /\ cronlog = [op |-> "none"]
    /\ fired = EmptyMap

\* Agent.Set(newConfig), from the watcher's goroutine
Set ==
    /\ \E newConfig \in Published : config' = newConfig
    /\ UNCHANGED <<snapshotFrame, ranging, ri, visited>>

\* RunOnce / SyncAll is called: Agent.Config().Specs is evaluated
RangeBegin ==
    /\ ri = 0
    /\ ranging' = config
    /\ ri' = 1
    /\ visited' = <<>>
    /\ UNCHANGED <<snapshotFrame, config>>

\* one turn of the loop
RangeTurn ==
    /\ ri \in DOMAIN ranging
    /\ visited' = Append(visited, RangeElement(ranging, config, ri))
    /\ ri' = ri + 1
    /\ UNCHANGED <<snapshotFrame, config, ranging>>

\* the loop is over and the pass returns
RangeEnd ==
    /\ ri = Len(ranging) + 1
    /\ ri' = 0
    /\ UNCHANGED <<snapshotFrame, config, ranging, visited>>

SnapshotNext ==
    \/ Set
    \/ RangeBegin
    \/ RangeTurn
    \/ RangeEnd

SnapshotSpec == SnapshotInit /\ [][SnapshotNext]_vars

\* C28: a pass processes the spec list of the one config that was published
\* when the pass called Config(), in order, whatever Set publishes meanwhile:
\* the specs visited so far are the first ones of that list, a pass that has
\* returned has visited exactly that list, and a pass that begins takes the
\* config published then.
C28_SnapshotAtomicity ==
    [][/\ (ri = 0 /\ ri' = 1) => ranging' = config
       /\ ri' > 0 => visited' = SubSeq(ranging', 1, ri' - 1)
       /\ ri' = 0 => visited' = ranging'
       /\ ri > 0 => ranging' = ranging]_vars

\* a pass has visited both specs of a config that Set has replaced by a
\* config with another first and another second spec
C28_Witness ==
    /\ ri = 3
    /\ Len(visited) = 2
    /\ Len(config) = 2
    /\ config[1] # visited[1]
    /\ config[2] # visited[2]

----------------------------------------------------------------------------
(* Validate of the two configs *)

\* SecretSyncSpec values: Source (SecretManagerSpec) and Destination
\* (KubernetesSpec), any field of which the yaml may leave empty
SecretSyncSpecs ==
    [source : [project : {"", "project-1"}, secret : {"", "secret-1", "secret-2"}],
     destination : [namespace : {"", "ns-a"}, secret : {"", "secret-a"},
                    key : {"", "key-a", "key-b"}]]

\* the five fields of a SecretSyncSpec
FieldsOf(s) ==
    <<s.source.project, s.source.secret,
      s.destination.namespace, s.destination.secret, s.destination.key>>

\* the sync configs Validate is checked on: up to MaxSpecs specs, each with
\* at most one field empty
SecretSyncConfigs ==
    LET specs == {s \in SecretSyncSpecs :
                     Cardinality({f \in 1..5 : FieldsOf(s)[f] = ""}) <= 1}
    IN  UNION {[1..n -> specs] : n \in 0..MaxSpecs}

\* Validate that never looks a destination up in syncFrom
SecretSyncConfigValidateFieldsOnly(specs) ==
    IF Len(specs) = 0 THEN "Empty secret sync configuration."
    ELSE IF \E i \in DOMAIN specs : \E f \in 1..5 : FieldsOf(specs[i])[f] = ""
    THEN "Missing field"
    ELSE Nil

\* the loop of SecretSyncConfig.Validate from spec i on, syncFrom being the
\* map from the destinations seen to their sources
RECURSIVE ValidateFrom(_, _, _)
ValidateFrom(specs, i, syncFrom) ==
    IF i > Len(specs) THEN Nil
    ELSE LET s == specs[i] IN
         IF s.source.project = "" THEN "Missing <project> field for <source>"
         ELSE IF s.source.secret = "" THEN "Missing <secret> field for <source>"
         ELSE IF s.destination.namespace = "" THEN "Missing <namespace> field for <destination>"
         ELSE IF s.destination.secret = "" THEN "Missing <secret> field for <destination>"
         ELSE IF s.destination.key = "" THEN "Missing <key> field for <destination>"
         ELSE IF s.destination \in DOMAIN syncFrom THEN "already has a source"
         ELSE ValidateFrom(specs, i + 1, Upsert(syncFrom, s.destination, s.source))

\* SecretSyncConfig.Validate
SecretSyncConfigValidate(specs) ==
    IF Len(specs) = 0 THEN "Empty secret sync configuration."
    ELSE ValidateFrom(specs, 1, EmptyMap)

\* what Validate leaves alone
validateFrame ==
    <<conf, store, iamKeys, nextKey, clock, pc, locals, ghosts, upserted, faults,
      syncVars, passVars, config, apc, reload, ranging, ri, visited, secrets,
      nextEntry, cronlog, fired, validating, startVars, callbackVars>>

\* everything but the config that was loaded
ValidateOff ==
    /\ StartOff
    /\ CallbackOff
    /\ RotatorOff
    /\ SyncOff
    /\ PassOff
    /\ faults = 0
    /\ config = <<>>
    /\ apc = "off"
    /\ reload = [op |-> "none", err |-> Nil, scheduled |-> TRUE]
    /\ ranging = <<>>
    /\ ri = 0
    /\ visited = <<>>
    /\ nextEntry = 0
    /\ cronlog = [op |-> "none"]
    /\ fired = EmptyMap
    /\ validated = "none"

\* a sync config has been loaded
SyncValidateInit ==
    /\ ValidateOff
    /\ validating \in SecretSyncConfigs

\* newConfig.Validate() on the sync config
SyncValidate ==
    /\ validated = "none"
    /\ validated' = SecretSyncConfigValidate(validating)
    /\ UNCHANGED validateFrame

SyncValidateSpec == SyncValidateInit /\ [][SyncValidate]_vars

\* two specs of the config have the same destination
SharedDestination(specs) ==
    \E i, j \in DOMAIN specs : i # j /\ specs[i].destination = specs[j].destination

\* C29: SecretSyncConfig.Validate returns an error exactly when the config is
\* empty, or a spec has one of its five fields empty, or two specs have the
\* same destination (namespace, secret, key), with the same source or not;
\* specs for different keys of one cluster secret are accepted.
C29_SyncValidate ==
    validated # "none" =>
        (validated # Nil <=>
            \/ Len(validating) = 0
            \/ \E i \in DOMAIN validating : \E f \in 1..5 : FieldsOf(validating[i])[f] = ""
            \/ SharedDestination(validating))

\* Validate has accepted two specs for two keys of one cluster secret
C29_Witness ==
    /\ validated = Nil
    /\ Len(validating) = 2
    /\ validating[1].destination.namespace = validating[2].destination.namespace
    /\ validating[1].destination.secret = validating[2].destination.secret
    /\ validating[1].destination.key # validating[2].destination.key
    /\ validating[1].source = validating[2].source

\* RotatedSecretSpec values as the yaml may give them: Project, Secret,
\* Refresh.Interval, Refresh.Cron, and the Type() of the spec's Type, which
\* is "" when no kind is set
RotatedSecretInputs ==
    [project : {"", "project-1"}, secret : {"", "secret-1"},
     interval : {0, MaxInterval}, cron : {NoCronStr, Mondays},
     type : {"", "serviceAccountKey"}]

\* the rotation configs Validate is checked on
RotatedSecretConfigs == UNION {[1..n -> RotatedSecretInputs] : n \in 0..MaxSpecs}

\* the types main registers a provisioner for
Provisioners == {"serviceAccountKey"}

\* a rotation config has been loaded
RotatedValidateInit ==
    /\ ValidateOff
    /\ validating \in RotatedSecretConfigs

\* newConfig.Validate() on the rotation config
RotatedValidate ==
    /\ validated = "none"
    /\ validated' = Validate(validating)
    /\ UNCHANGED validateFrame

RotatedValidateSpec == RotatedValidateInit /\ [][RotatedValidate]_vars

\* C30: a rotation config that RotatedSecretConfig.Validate accepts is not
\* empty, and each of its specs has a project and a secret, exactly one
\* refresh strategy (an interval other than 0, or a cron string), and a kind
\* with a registered provisioner.
C30_RotatedValidate ==
    validated = Nil =>
        /\ Len(validating) > 0
        /\ \A i \in DOMAIN validating :
              /\ validating[i].project # ""
              /\ validating[i].secret # ""
              /\ (validating[i].interval # 0) # (validating[i].cron # NoCronStr)
              /\ validating[i].type \in Provisioners

----------------------------------------------------------------------------
(* SecretSyncController.Start: the loop around SyncAll *)

\* the SyncAll calls that are counted
MaxPasses == 3

\* a select that takes the tick whenever there is one
SelectPrefersRun(stopReady, runReady) ==
    IF runReady THEN {"run"} ELSE IF stopReady THEN {"stop"} ELSE {}

\* `select { case <-stopChan: ... case <-runChan: ... }`: the cases it may
\* take, any of those that are ready
Select(stopReady, runReady) ==
    {c \in {"stop", "run"} : (c = "stop" /\ stopReady) \/ (c = "run" /\ runReady)}

\* a loop that ignores RunOnce
AfterSyncAllLoops(once) == "select"

\* after c.SyncAll(): `if c.RunOnce { return nil }`
AfterSyncAll(once) == IF once THEN "returned" ELSE "select"

\* what Start and its pass leave alone
startFrame ==
    <<conf, clock, singleVars, passVars, faults, SecretManagerSecret, synced, last,
      without, unsynced, config, apc, reload, ranging, ri, visited, validateVars,
      nextEntry, cronlog, fired, callbackVars, runOnce>>

\* Start has been called, in either mode: runChan is made and the ticker
\* goroutine is at its first send
StartInit ==
    /\ RotatorOff
    /\ PassOff
    /\ faults = 0
    /\ SecretManagerSecret \in
          {[id \in S |-> Bytes("token")] : S \in SUBSET Sources}
    /\ K8sSecret \in InitClusters
    /\ si = 0
    /\ synced = <<>>
    /\ last = NoSync
    /\ without = EmptyMap
    /\ unsynced = {}
    /\ config = <<>>
    /\ apc = "off"
    /\ reload = [op |-> "none", err |-> Nil, scheduled |-> TRUE]
    /\ ranging = <<>>
    /\ ri = 0
    /\ visited = <<>>
    /\ validating = <<>>
    /\ validated = "none"
    /\ nextEntry = 0
    /\ cronlog = [op |-> "none"]
    /\ fired = EmptyMap
    /\ CallbackOff
    /\ startpc = "select"
    /\ runOnce \in BOOLEAN
    /\ stop = [sig |-> "none", at |-> 0]
    /\ ticker = "send"
    /\ passes = 0

\* the owner of stopChan sends on it: `stopController <- struct{}{}`
StopSend ==
    /\ stop.sig = "none"
    /\ stop' = [sig |-> "sending", at |-> si]
    /\ UNCHANGED <<startFrame, K8sSecret, si, startpc, ticker, passes>>

\* case <-stopChan: return nil
StartStop ==
    /\ startpc = "select"
    /\ "stop" \in Select(stop.sig = "sending", ticker = "send")
    /\ stop' = [stop EXCEPT !.sig = "received"]
    /\ startpc' = "returned"
    /\ UNCHANGED <<startFrame, K8sSecret, si, ticker, passes>>

\* case <-runChan: c.SyncAll() is called; the ticker goes to sleep
StartRun ==
    /\ startpc = "select"
    /\ "run" \in Select(stop.sig = "sending", ticker = "send")
    /\ ticker' = "sleep"
    /\ startpc' = "pass"
    /\ si' = SyncAllNext(0, Nil)
    /\ UNCHANGED <<startFrame, K8sSecret, stop, passes>>

\* one turn of the loop of the SyncAll that Start called
StartSync ==
    /\ startpc = "pass"
    /\ si \in 1..Len(SyncSpecs)
    /\ LET r == Sync(SyncSpecs[si], SecretManagerSecret, K8sSecret, FALSE) IN
       /\ K8sSecret' = r.cluster
       /\ si' = SyncAllNext(si, r.err)
    /\ UNCHANGED <<startFrame, startpc, stop, ticker, passes>>

\* SyncAll returns to Start
StartSyncAllReturn ==
    /\ startpc = "pass"
    /\ si = Len(SyncSpecs) + 1
    /\ si' = 0
    /\ passes' = IF passes < MaxPasses THEN passes + 1 ELSE passes
    /\ startpc' = AfterSyncAll(runOnce)
    /\ UNCHANGED <<startFrame, K8sSecret, stop, ticker>>

\* time.Sleep(c.ResyncPeriod) of the ticker goroutine is over
TickerWake ==
    /\ ticker = "sleep"
    /\ ticker' = "send"
    /\ UNCHANGED <<startFrame, K8sSecret, si, startpc, stop, passes>>

StartNext ==
    \/ StopSend
    \/ StartStop
    \/ StartRun
    \/ StartSync
    \/ StartSyncAllReturn
    \/ TickerWake

StartSpec == StartInit /\ [][StartNext]_vars

\* the goroutines run, the ticker wakes, and a select with the stop case
\* ready again and again takes it at some time: Go's select chooses at
\* random among the ready cases
StartLive ==
    /\ StartSpec
    /\ WF_vars(StartRun)
    /\ WF_vars(StartSync)
    /\ WF_vars(StartSyncAllReturn)
    /\ WF_vars(TickerWake)
    /\ SF_vars(StartStop)

\* C31: once a send waits on stopChan, Start returns; a SyncAll that was
\* running when the send arrived has returned before Start takes the stop
\* signal; and after Start has returned no pass starts and nothing is written.
C31_StartTerminatesOnStop ==
    /\ (stop.sig = "sending") ~> (startpc = "returned")
    /\ []((stop.sig = "received" /\ stop.at > 0) => (passes >= 1 /\ si = 0))
    /\ [][/\ (stop'.sig # stop.sig /\ stop'.sig = "received") =>
                (startpc = "select" /\ si = 0)
          /\ startpc = "returned" =>
                /\ startpc' = "returned"
                /\ si' = 0
                /\ K8sSecret' = K8sSecret
                /\ passes' = passes]_vars

\* in continuous mode Start has returned on a stop signal that arrived while
\* SyncAll was running
C31_Witness ==
    /\ ~runOnce
    /\ startpc = "returned"
    /\ stop.sig = "received"
    /\ stop.at > 1
    /\ passes = 1

\* C32: with RunOnce set Start calls SyncAll at most once, has called it
\* once when it returns without a stop signal, and does return; in either
\* mode a tick is taken only at the select, with no SyncAll running, each
\* tick taken starts one SyncAll, and a SyncAll returns only to the Start
\* that is in its pass.
C32_SingleShotAndNoOverlap ==
    /\ [](runOnce => passes <= 1)
    /\ []((runOnce /\ startpc = "returned" /\ stop.sig # "received") => passes = 1)
    /\ runOnce ~> (startpc = "returned")
    /\ []((startpc = "pass") <=> (si > 0))
    /\ [][/\ (ticker = "send" /\ ticker' = "sleep") =>
                /\ startpc = "select" /\ si = 0
                /\ startpc' = "pass" /\ si' = 1
          /\ (si = 0 /\ si' > 0) => (ticker = "send" /\ ticker' = "sleep")
          /\ passes' # passes => (startpc = "pass" /\ startpc' # "pass" /\ si' = 0)]_vars

\* with RunOnce set and no stop signal Start has returned after one pass
C32_Witness ==
    /\ runOnce
    /\ startpc = "returned"
    /\ stop.sig = "none"
    /\ passes = 1

----------------------------------------------------------------------------
(* Properties of the rotator's writes to the store *)

\* C33: no step of the rotator deletes the secret or a version of it: the
\* versions stay where they are with their payload and creation time, a step
\* adds at most one version, at the next number and in Refresh only, and the
\* state of a version changes to DESTROYED only and stays DESTROYED.
C33_VersionsOnlyAdded ==
    [][/\ secretExists => secretExists'
       /\ Len(versions') \in {Len(versions), Len(versions) + 1}
       /\ Len(versions') # Len(versions) => pc \in RefreshPcs
       /\ \A v \in DOMAIN versions :
             /\ v \in DOMAIN versions'
             /\ versions'[v].createTime = versions[v].createTime
             /\ versions'[v].data = versions[v].data
             /\ versions'[v].state \in {versions[v].state, DESTROYED}]_vars

\* Refresh has published a version since a version was revoked and destroyed
C33_Witness ==
    /\ \E v \in revoked : v + 1 < Len(versions) /\ versions[v].state = DESTROYED
    /\ versions[Len(versions)].state # DESTROYED
    /\ refreshed = [res |-> TRUE, err |-> Nil]

----------------------------------------------------------------------------
(* The order of a RunOnce pass *)

\* the place of a step among the three of a spec
StepRank(step) == CHOOSE k \in DOMAIN AllSteps : AllSteps[k] = step

\* C34: a RunOnce pass goes through the specs in the order of the config and
\* takes UpsertLabels, Refresh, Deactivate for each, in this order: the specs
\* before the current one have had all three steps, the current one those
\* before its next step, the later ones none; every step that changes the
\* store is the next step of the current spec, it changes the secret of that
\* spec only, and the step after it is the next of the same spec or, after
\* Deactivate, the first of the next spec.
C34_SerialPassOrder ==
    /\ [](pidx # 0 =>
            /\ \A i \in 1..(pidx - 1) : StepsOf(i) = AllSteps
            /\ \A i \in (pidx + 1)..Len(Specs) : plog[i] = <<>>
            /\ StepsOf(pidx) = IF pstep = "return" THEN AllSteps
                               ELSE SubSeq(AllSteps, 1, StepRank(pstep) - 1))
    /\ [][/\ gsm' # gsm =>
                /\ pidx # 0 /\ pstep # "return"
                /\ \A i \in DOMAIN Specs :
                      i # pidx => gsm'[Specs[i].secret] = gsm[Specs[i].secret]
                /\ plog' = [plog EXCEPT ![pidx] = Append(@, plog'[pidx][Len(plog'[pidx])])]
                /\ plog'[pidx][Len(plog'[pidx])].step = pstep
          /\ (pidx # 0 /\ pstep # "return") =>
                \/ pidx' = pidx /\ pstep # "Deactivate"
                     /\ pstep' = AllSteps[StepRank(pstep) + 1]
                \/ pidx' = pidx + 1 /\ pstep = "Deactivate" /\ pstep' = "UpsertLabels"
                \/ pidx' = pidx /\ pidx = Len(Specs) /\ pstep = "Deactivate"
                     /\ pstep' = "return"]_vars

\* RunOnce returns from a pass that has changed the secrets of both specs
C34_Witness ==
    /\ pstep = "return"
    /\ \A i \in DOMAIN Specs :
          /\ gsm[Specs[i].secret] # gsm0[Specs[i].secret]
          /\ Len(gsm[Specs[i].secret].versions) > Len(gsm0[Specs[i].secret].versions)

----------------------------------------------------------------------------
(* Deactivate after a Deactivate that stopped half-way *)

\* version n was revoked by an earlier Deactivate, and the Deactivate that is
\* running or has returned found it not destroyed, labelled and out of grace
HalfDeactivated(n) ==
    /\ n \in revoked
    /\ n \in DOMAIN dcall.versions
    /\ dcall.versions[n].state # DESTROYED
    /\ VKey(n) \in DOMAIN dcall.labels
    /\ OutOfGrace(n, now)

\* C35: a Deactivate in which no call is made to fail, on a secret with a
\* version N whose credential an earlier pass revoked without getting to
\* destroy the version or to remove its label, returns with version N
\* DESTROYED and the label v<N> removed.
C35_DeactivateConverges ==
    (pc = "deactivated" /\ dcall.err = Nil /\ faults = dcall.faults) =>
        \A n \in DOMAIN dcall.versions :
            HalfDeactivated(n) => (Destroyed(n) /\ VKey(n) \notin DOMAIN labels)

----------------------------------------------------------------------------
(* The credential the provisioner is asked to revoke *)

\* the versions whose payload is the private key of the upstream key id
PublishedWith(id) ==
    {m \in DOMAIN versions : versions[m].data = PrivateKeyData(id)}

-----------------------------------------------------------------------------
(* Versions published by Refresh and their labels *)

\* version n holds a private key returned by CreateNew
PublishedByRefresh(n) ==
    Exists(n) /\ Len(versions[n].data) = 2 /\ versions[n].data[1] = "private-key"

\* version n has its v<n> label, holding the id of the key it was published with
LabelledWithOwnId(n) ==
    /\ VKey(n) \in DOMAIN labels
    /\ versions[n].data = PrivateKeyData(labels[VKey(n)])

\* C37: between passes, every version published by Refresh that is not
\* DESTROYED has its v<N> label holding the id CreateNew returned for it, also
\* after passes in which client calls failed.
C37_LiveVersionsTracked ==
    pc = "idle" =>
        \A n \in DOMAIN versions :
            (PublishedByRefresh(n) /\ ~Destroyed(n)) => LabelledWithOwnId(n)

-----------------------------------------------------------------------------
(* The order in which Deactivate visits the labels *)

\* the secret and the keys as the running Deactivate found them
AtDeactivateBegin ==
    [exists |-> secretExists, versions |-> dcall.versions, labels |-> dcall.labels,
     keys |-> dcall.keys, nextKey |-> nextKey]

\* what Deactivate leaves behind, computed from what it found without
\* reference to an order of the labels
OrderFree == DeactivateOf(AtDeactivateBegin, Specs[1], now, {}).st

\* the versions the running Deactivate has set to DESTROYED
DestroyedByCall ==
    {n \in DOMAIN versions : Destroyed(n) /\ dcall.versions[n].state # DESTROYED}

\* C38: a Deactivate in which no call failed ends, whatever the order in which
\* it visited the v<N> labels, with the DESTROYED versions, the keys and the
\* labels that follow from the store, the spec and now it started with.
C38_OrderIndependent ==
    (pc = "deactivated" /\ dcall.err = Nil /\ faults = dcall.faults) =>
        /\ versions = OrderFree.versions
        /\ iamKeys = OrderFree.keys
        /\ labels = OrderFree.labels

\* a Deactivate that had two versions to destroy
C38_Witness ==
    /\ pc = "deactivated"
    /\ dcall.err = Nil
    /\ faults = dcall.faults
    /\ Cardinality(DestroyedByCall) >= 2
    /\ \A n \in DestroyedByCall : VKey(n) \notin DOMAIN labels

-----------------------------------------------------------------------------
(* The pace of an interval strategy *)

\* the time between the creation of version n and of the version before it
Apart(n) == versions[n].createTime - versions[n - 1].createTime

\* C39: for a spec with a refresh interval, a pass publishes at most one
\* version, and every version Refresh published after another version was
\* created more than `interval` later than that version.
C39_IntervalPacing ==
    spec.interval # 0 =>
        /\ \A n \in 2..Len(versions) :
              PublishedByRefresh(n) => Apart(n) > spec.interval
        /\ pc \notin {"idle", "refresh"} => Len(versions) <= Len(pre.versions) + 1

\* three versions published by Refresh as early as the interval allows
C39_Witness ==
    /\ spec.interval # 0
    /\ pc = "idle"
    /\ Len(versions) = 3
    /\ \A n \in 1..3 : PublishedByRefresh(n)
    /\ \A n \in 2..3 : Apart(n) = spec.interval + 1

-----------------------------------------------------------------------------
(* The callbacks of the cron entries. The cronAgent runs the func of an      *)
(* entry that fires in a goroutine of its own; the func takes Cron.lock as   *)
(* its first statement, so a SyncConfig can run between the fire and the     *)
(* write of the flag.                                                         *)

\* the cronAgent starts the func of the entry registered for `name`
EntryFires(name) ==
    /\ name \in DOMAIN secrets
    /\ started' = started \cup {[name |-> name, entryID |-> secrets[name].entryID]}
    /\ UNCHANGED <<callbackFrame, secrets, nextEntry, cronlog, fired, cb>>

\* the func of addSecret gets the lock: c.secrets[name].triggered = true,
\* a write through a nil pointer when c.secrets has no record for name
addSecretFuncRuns(c) ==
    /\ c \in started
    /\ started' = started \ {c}
    /\ IF c.name \in DOMAIN secrets
       THEN /\ secrets' = [secrets EXCEPT ![c.name].triggered = TRUE]
            /\ fired' = Upsert(fired, c.name, "scheduled")
            /\ cb' = [op |-> "func", name |-> c.name, entryID |-> c.entryID,
                      wrote |-> secrets[c.name].entryID, panicked |-> FALSE]
       ELSE /\ cb' = [op |-> "func", name |-> c.name, entryID |-> c.entryID,
                      wrote |-> 0, panicked |-> TRUE]
            /\ UNCHANGED <<secrets, fired>>
    /\ UNCHANGED <<callbackFrame, nextEntry, cronlog>>

\* the callbacks a fire of (name, id) may have started
Callbacks == [name : SecretNames, entryID : 1..MaxEntries]

CallbackNext ==
    \/ CronSyncConfig
    \/ \E name \in SecretNames : EntryFires(name)
    \/ \E c \in Callbacks : addSecretFuncRuns(c)
    \/ CronQueuedSecrets

CallbackSpec == CronInit /\ [][CallbackNext]_vars

\* C40: a callback that gets the lock after SyncConfig removed or replaced
\* its entry finds a record to write to only if it is its own: it does not
\* fail on a missing record and does not set the triggered flag of another
\* entry.
C40_CallbackHarmless ==
    cb.op = "func" => (~cb.panicked /\ cb.wrote = cb.entryID)

====
